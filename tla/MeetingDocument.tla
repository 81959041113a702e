--------------------------- MODULE MeetingDocument ---------------------------
(***************************************************************************)
(* The stored encrypted document of one Meeting                            *)
(* (backend/src/meetings/meeting-document.service.ts): an active snapshot, *)
(* the updates accepted on top of it and the server sequence, together     *)
(* with the status of the Meeting row that gates every write.              *)
(*                                                                         *)
(* Every write transaction first takes the Meeting row with                *)
(* "pessimistic_write" and keeps it until it ends.  appendUpdate touches   *)
(* nothing but the database in between, so it is one atomic step;          *)
(* compaction and completion consult the in-memory coordinator while they  *)
(* hold the row, so for them rowLock is part of the state.                 *)
(*                                                                         *)
(* Envelopes are opaque: of an update only its client epoch, its author    *)
(* clock and the snapshot it was sealed against matter here.               *)
(***************************************************************************)
EXTENDS Integers, FiniteSets, FiniteSetsExt

CONSTANTS
    Epochs,        \* client epochs that author updates
    Transactions,  \* compaction and completion transactions
    MaxSequence    \* bound: updates accepted in one behaviour

ASSUME DocumentConstants ==
    /\ MaxSequence \in Nat
    /\ Transactions \subseteq Nat \ {0}

VARIABLES
    status,                   \* Meeting.status
    currentServerSequence,
    completedServerSequence,  \* NotCompleted until the Meeting is completed
    snapshot,                 \* the active snapshot
    updates,                  \* the rows of meeting_document_updates
    rowLock                   \* transaction holding the Meeting row, or NoLock

documentVars == <<status, currentServerSequence, completedServerSequence,
                  snapshot, updates, rowLock>>

NotCompleted == -1
NoLock == 0
InitialSnapshot == 0    \* id of the snapshot stored by createInitial
Statuses == {"planned", "in_progress", "completed"}

\* A later snapshot is identified by the transaction that stored it.
SnapshotIds == {InitialSnapshot} \cup Transactions
Snapshot == [id: SnapshotIds, covered: 0..MaxSequence, clocks: [Epochs -> 0..MaxSequence]]
Update == [epoch: Epochs, clock: 1..MaxSequence, sequence: 1..MaxSequence,
           parent: SnapshotIds]

ClocksOf(e) == {u.clock : u \in {v \in updates : v.epoch = e}}

\* `latest?.authorClock ?? coveredClock`
LatestClock(e) == IF ClocksOf(e) = {} THEN snapshot.clocks[e] ELSE Max(ClocksOf(e))

\* The clocks compact() demands of a snapshot: the parent's, raised by the
\* updates it replaces.
CoveredClocks == [e \in Epochs |-> Max(ClocksOf(e) \cup {snapshot.clocks[e]})]

-----------------------------------------------------------------------------
\* Mutants of AppendUpdate: without the row lock, without the check of the
\* Meeting status or of the parent snapshot.
UnlockedAppend(e, k, parent) ==
    /\ status # "completed"
    /\ parent = snapshot.id
    /\ k = LatestClock(e) + 1
    /\ currentServerSequence < MaxSequence
    /\ currentServerSequence' = currentServerSequence + 1
    /\ updates' = updates \cup {[epoch |-> e, clock |-> k,
                                 sequence |-> currentServerSequence + 1,
                                 parent |-> parent]}
    /\ UNCHANGED <<status, completedServerSequence, snapshot, rowLock>>

LockedAppend(e, k, parent) ==
    /\ rowLock = NoLock
    /\ currentServerSequence < MaxSequence
    /\ currentServerSequence' = currentServerSequence + 1
    /\ updates' = updates \cup {[epoch |-> e, clock |-> k,
                                 sequence |-> currentServerSequence + 1,
                                 parent |-> parent]}
    /\ UNCHANGED <<status, completedServerSequence, snapshot, rowLock>>

AppendToCompleted(e, k, parent) ==
    parent = snapshot.id /\ k = LatestClock(e) + 1 /\ LockedAppend(e, k, parent)

AppendToAnyParent(e, k, parent) ==
    status # "completed" /\ k = LatestClock(e) + 1 /\ LockedAppend(e, k, parent)

\* appendUpdate stores a new envelope (e, k) sealed against `parent`.  Every
\* other envelope leaves the database unchanged: an exact retry of the latest
\* one is answered as a duplicate, the rest is refused.
AppendUpdate(e, k, parent) ==
    /\ rowLock = NoLock
    /\ status # "completed"
    /\ parent = snapshot.id
    /\ k \notin ClocksOf(e)
    /\ k = LatestClock(e) + 1
    /\ currentServerSequence < MaxSequence
    /\ currentServerSequence' = currentServerSequence + 1
    /\ updates' = updates \cup {[epoch |-> e, clock |-> k,
                                 sequence |-> currentServerSequence + 1,
                                 parent |-> parent]}
    /\ UNCHANGED <<status, completedServerSequence, snapshot, rowLock>>

\* The first statement of the compaction and completion transactions, with the
\* status check that follows it.
LockMeeting(t, statuses) ==
    /\ rowLock = NoLock
    /\ status \in statuses
    /\ rowLock' = t
    /\ UNCHANGED <<status, currentServerSequence, completedServerSequence, snapshot, updates>>

\* Rollback, which also frees the row if the transaction had it.
Rollback(t) ==
    /\ rowLock' = IF rowLock = t THEN NoLock ELSE rowLock
    /\ UNCHANGED <<status, currentServerSequence, completedServerSequence, snapshot, updates>>

\* Mutant: the snapshot keeps the clocks of its parent.
CompactionForgettingClocks(t) ==
    /\ rowLock = t
    /\ snapshot' = [snapshot EXCEPT !.id = t, !.covered = currentServerSequence]
    /\ updates' = {}
    /\ rowLock' = NoLock
    /\ UNCHANGED <<status, currentServerSequence, completedServerSequence>>

\* compact: the new snapshot becomes active, every update and every other
\* snapshot is deleted.
CommitCompaction(t) ==
    /\ rowLock = t
    /\ snapshot' = [id |-> t, covered |-> currentServerSequence, clocks |-> CoveredClocks]
    /\ updates' = {}
    /\ rowLock' = NoLock
    /\ UNCHANGED <<status, currentServerSequence, completedServerSequence>>

\* complete: the claimed sequence is recorded and the Meeting is closed.
CommitCompletion(t, sequence) ==
    /\ rowLock = t
    /\ status' = "completed"
    /\ completedServerSequence' = sequence
    /\ rowLock' = NoLock
    /\ UNCHANGED <<currentServerSequence, snapshot, updates>>

\* PATCH of a Meeting that is not completed.
UpdateMeeting(newStatus) ==
    /\ rowLock = NoLock
    /\ status # "completed"
    /\ status' = newStatus
    /\ UNCHANGED <<currentServerSequence, completedServerSequence, snapshot, updates, rowLock>>

\* A Meeting is created with an empty initial snapshot, planned or in progress.
DocumentInit ==
    /\ status \in {"planned", "in_progress"}
    /\ currentServerSequence = 0
    /\ completedServerSequence = NotCompleted
    /\ snapshot = [id |-> InitialSnapshot, covered |-> 0, clocks |-> [e \in Epochs |-> 0]]
    /\ updates = {}
    /\ rowLock = NoLock

-----------------------------------------------------------------------------
(* Properties of the stored document *)

\* The values the stored rows can hold.
DocumentTypeOK ==
    /\ status \in Statuses
    /\ currentServerSequence \in 0..MaxSequence
    /\ completedServerSequence \in 0..MaxSequence \cup {NotCompleted}
    /\ snapshot \in Snapshot
    /\ updates \in SUBSET Update
    /\ rowLock \in Transactions \cup {NoLock}

\* No accepted update is ever lost or stored twice: the snapshot covers the
\* sequences up to `covered` and the stored updates are exactly the sequences
\* after it, one row each, all sealed against the active snapshot (bootstrap
\* selects the rows by that snapshot id).
LogIsGapless ==
    /\ {u.sequence : u \in updates} = (snapshot.covered + 1)..currentServerSequence
    /\ \A u, v \in updates : u.sequence = v.sequence => u = v
    /\ \A u \in updates : u.parent = snapshot.id

\* The nonce counter of an epoch is never used for two accepted updates and
\* never skips, also across compactions: the stored clocks of an epoch continue
\* the covered ones without a gap and in server order.
ClocksAreSequential ==
    /\ \A e \in Epochs : ClocksOf(e) = (snapshot.clocks[e] + 1)..LatestClock(e)
    /\ \A u, v \in updates :
          u.epoch = v.epoch => (u.clock < v.clock <=> u.sequence < v.sequence)

\* What is stored is a log: no accepted update is lost or stored twice, and no
\* author ever uses a nonce again, whatever compactions come between.
LogIsSound == LogIsGapless /\ ClocksAreSequential

\* A completed Meeting is sealed at the last accepted update: the recorded
\* sequence is the current one.
SealedAtCurrentSequence ==
    status = "completed" => completedServerSequence = currentServerSequence

\* After completion nothing of the document changes any more.
CompletedIsImmutable ==
    [][status = "completed"
       => UNCHANGED <<status, currentServerSequence, completedServerSequence,
                      snapshot, updates>>]_documentVars

-----------------------------------------------------------------------------
(* The stored document implements the append-only log: compaction, retries,  *)
(* rolled back transactions and restarts are invisible to the authors.       *)

Log == INSTANCE MeetingLog WITH
    length <- currentServerSequence,
    clocks <- [e \in Epochs |-> LatestClock(e)],
    sealed <- (status = "completed")

\* Every step of the system is an accepted update, the completion, or nothing
\* to the authors of the document.
ImplementsLog == Log!LogSpec
=============================================================================
