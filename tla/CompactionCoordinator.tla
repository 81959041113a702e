------------------------ MODULE CompactionCoordinator ------------------------
(***************************************************************************)
(* The in-memory coordinator of one Meeting document                       *)
(* (backend/src/meetings/meeting-compaction-coordinator.ts).               *)
(*                                                                         *)
(* At most one barrier is open for a document.  A "compaction" barrier     *)
(* waits until every participant has drained its writes and then lets one  *)
(* client replace the active snapshot; a "completion" barrier additionally *)
(* reads the server sequence, waits until every participant confirms it    *)
(* and then lets one user freeze the Meeting.  Every method of the class   *)
(* runs without yielding, so it is one action here; the only asynchronous  *)
(* one, captureCompletionSequence, is split at its await.                  *)
(*                                                                         *)
(* The maps of the class are keyed by document (or by its Meeting); the    *)
(* documents do not interact, so the module is about one of them.          *)
(***************************************************************************)
EXTENDS Integers, FiniteSets

CONSTANTS
    Connections,   \* connection ids: a socket gets a fresh one and joins once
    Users,         \* user ids
    MaxBarriers,   \* bound: barriers opened in one behaviour
    Sequences,     \* the server sequences that readSequence may return
    MaxWriters     \* bound: writers of one kind at work at the same time

ASSUME CoordinatorConstants ==
    /\ IsFiniteSet(Connections)
    /\ MaxBarriers \in Nat
    /\ Sequences \subseteq Nat
    /\ MaxWriters \in Nat
    /\ "nobody" \notin Connections
    /\ "nobody" \notin Users

VARIABLES
    barrier,               \* the barrier of the document, or NoBarrier
    issued,                \* number of barrier ids drawn; ids are never reused
    connections,           \* the joined connections
    collaborationWriters,  \* relay updates being written
    externalWriters,       \* HTTP document writes being written
    captures,              \* sequence reads of captureCompletionSequence under way
    waiting,               \* barriers whose beginCompletion promise is unsettled
    released               \* outcome broadcast for each barrier, "none" before that

coordinatorVars == <<barrier, issued, connections, collaborationWriters,
                     externalWriters, captures, waiting, released>>

BarrierIds == 1..MaxBarriers
NoSequence == -1                                  \* serverSequence: null
Intentions == {"compaction", "completion"}
Phases == {"draining", "confirming", "ready", "finalizing", "committing"}
Outcomes == {"none", "aborted", "compacted", "completed"}

Barrier == [id: {0} \cup BarrierIds,
            intention: Intentions,
            phase: Phases \cup {"none"},
            cancelled: BOOLEAN,
            owner: Users \cup {"nobody"},            \* compactorUserId
            compactor: Connections \cup {"nobody"},  \* compactorConnectionId, or ''
            participants: SUBSET Connections,
            drained: SUBSET Connections,
            confirmed: SUBSET Connections,
            serverSequence: Sequences \cup {NoSequence}]

NoBarrier == [id |-> 0, intention |-> "compaction", phase |-> "none",
              cancelled |-> FALSE, owner |-> "nobody", compactor |-> "nobody",
              participants |-> {}, drained |-> {}, confirmed |-> {},
              serverSequence |-> NoSequence]

\* One call of captureCompletionSequence that waits for readSequence().  Two
\* captures of one barrier always see different participant sets, because only
\* a join takes the barrier back to draining.
Capture == [barrier: BarrierIds, participants: SUBSET Connections,
            sequence: Sequences \cup {NoSequence}]

Open == barrier.phase # "none"
Frozen(b) == b.phase \in {"finalizing", "committing"}
AllDrained(b) == Cardinality(b.drained) = Cardinality(b.participants)
AllConfirmed(b) == Cardinality(b.confirmed) = Cardinality(b.participants)

NewBarrier(intention, owner, compactor, participants) ==
    [NoBarrier EXCEPT !.id = issued + 1, !.intention = intention,
                      !.phase = "draining", !.owner = owner,
                      !.compactor = compactor, !.participants = participants]

-----------------------------------------------------------------------------
(* release: forget the barrier, reject an unsettled prepare, tell everyone *)

\* Mutant: the pending prepareCompletion is not rejected.
SilentRelease(outcome) ==
    /\ barrier' = NoBarrier
    /\ released' = [released EXCEPT ![barrier.id] = outcome]
    /\ UNCHANGED waiting

Release(outcome) ==
    /\ barrier' = NoBarrier
    /\ waiting' = IF outcome = "aborted" THEN waiting \ {barrier.id} ELSE waiting
    /\ released' = [released EXCEPT ![barrier.id] = outcome]

KeepBarrier == UNCHANGED <<barrier, waiting, released>>

\* abort: a committing completion is only marked, a committing compaction is
\* left alone, every other barrier is released.
AbortBarrier ==
    IF barrier.phase = "committing"
    THEN /\ barrier' = [barrier EXCEPT !.cancelled = (@ \/ barrier.intention = "completion")]
         /\ UNCHANGED <<waiting, released>>
    ELSE Release("aborted")

-----------------------------------------------------------------------------
(* The methods *)

OpenCompaction(p, u, participants) ==
    /\ externalWriters = 0
    /\ ~Open
    /\ issued < MaxBarriers
    /\ barrier' = NewBarrier("compaction", u, p, participants)
    /\ issued' = issued + 1
    /\ UNCHANGED <<connections, collaborationWriters, externalWriters, captures,
                   waiting, released>>

\* Mutants: the phase survives a join, a committing barrier does not, and a
\* frozen completion accepts participants.
JoinedKeepingPhase(b, p) ==
    IF b.phase = "none" \/ (b.intention = "completion" /\ Frozen(b)) THEN b
    ELSE [b EXCEPT !.participants = @ \cup {p}, !.confirmed = {}]

JoinedRestartingCommit(b, p) ==
    IF b.phase = "none" \/ (b.intention = "completion" /\ Frozen(b)) THEN b
    ELSE [b EXCEPT !.participants = @ \cup {p}, !.confirmed = {},
                   !.phase = "draining", !.serverSequence = NoSequence]

JoinedThawing(b, p) ==
    IF b.phase = "none" \/ (b.intention = "completion" /\ b.phase = "committing") THEN b
    ELSE [b EXCEPT !.participants = @ \cup {p}, !.confirmed = {},
                   !.phase = "draining", !.serverSequence = NoSequence]

Joined(b, p) ==
    IF b.phase = "none" \/ (b.intention = "completion" /\ Frozen(b)) THEN b
    ELSE IF b.phase = "committing"
         THEN [b EXCEPT !.participants = @ \cup {p}, !.confirmed = {}]
         ELSE [b EXCEPT !.participants = @ \cup {p}, !.confirmed = {},
                        !.phase = "draining", !.serverSequence = NoSequence]

Join(p) ==
    /\ connections' = connections \cup {p}
    /\ barrier' = Joined(barrier, p)
    /\ UNCHANGED <<issued, collaborationWriters, externalWriters, captures,
                   waiting, released>>

CanAcknowledge(id, p) ==
    /\ barrier.id = id
    /\ p \in barrier.participants
    /\ barrier.phase = "draining"

Drained(p) == [barrier EXCEPT !.drained = @ \cup {p}]

Acknowledge(id, p) ==
    /\ CanAcknowledge(id, p)
    /\ barrier' = Drained(p)
    /\ UNCHANGED <<issued, connections, collaborationWriters, externalWriters,
                   captures, waiting, released>>

\* ready, and the relay's check that the designated compactor is still there.
Ready(id, sequence, compactorThere) ==
    /\ barrier.id = id
    /\ barrier.phase = "draining"
    /\ AllDrained(barrier)
    /\ IF compactorThere
       THEN /\ barrier' = [barrier EXCEPT !.phase = "ready", !.serverSequence = sequence]
            /\ UNCHANGED <<waiting, released>>
       ELSE Release("aborted")
    /\ UNCHANGED <<issued, connections, collaborationWriters, externalWriters, captures>>

Claim(u) ==
    /\ barrier.intention = "compaction"
    /\ barrier.owner = u
    /\ barrier.phase = "ready"
    /\ barrier' = [barrier EXCEPT !.phase = "committing"]
    /\ UNCHANGED <<issued, connections, collaborationWriters, externalWriters,
                   captures, waiting, released>>

\* assertClaim does not throw.
ClaimHolds(id) ==
    /\ barrier.id = id
    /\ barrier.phase = "committing"
    /\ ~barrier.cancelled

\* complete and fail, once the transaction of barrier id has an outcome.  The
\* barrier may already be gone: then there is nothing to release.
Finish(id, outcome) ==
    /\ IF barrier.id = id THEN Release(outcome) ELSE KeepBarrier
    /\ UNCHANGED <<issued, connections, collaborationWriters, externalWriters, captures>>

Complete(id) ==
    Finish(id, IF barrier.intention = "completion" THEN "completed" ELSE "compacted")

Fail(id) == Finish(id, "aborted")

\* abort(documentId, barrierId): a failure reported by a client, a missing
\* document row, a failed sequence read.
Abort(id) ==
    /\ barrier.id = id
    /\ Open
    /\ AbortBarrier
    /\ UNCHANGED <<issued, connections, collaborationWriters, externalWriters, captures>>

Disconnected(p) ==
    /\ connections' = connections \ {p}
    /\ IF p \in barrier.participants THEN AbortBarrier ELSE KeepBarrier
    /\ UNCHANGED <<issued, collaborationWriters, externalWriters, captures>>

\* prepareUpdate of a frame that is then refused (a malformed envelope): the
\* round it disturbed is aborted all the same.
PrepareUpdate(p) ==
    /\ ~Frozen(barrier)
    /\ p \in barrier.drained
    /\ Release("aborted")
    /\ UNCHANGED <<issued, connections, collaborationWriters, externalWriters, captures>>

\* prepareUpdate followed, in the same synchronous step, by
\* beginCollaborationUpdate: a frozen barrier refuses, an update of a client
\* that had already drained aborts the barrier.
AdmitUpdate(p) ==
    /\ ~Frozen(barrier)
    /\ IF p \in barrier.drained THEN Release("aborted") ELSE KeepBarrier
    /\ collaborationWriters < MaxWriters
    /\ collaborationWriters' = collaborationWriters + 1
    /\ UNCHANGED <<issued, connections, externalWriters, captures>>

\* Mutant: the counter has no floor.
UnguardedEndCollaborationUpdate ==
    /\ collaborationWriters' = collaborationWriters - 1
    /\ UNCHANGED <<barrier, issued, connections, externalWriters, captures, waiting, released>>

EndCollaborationUpdate ==
    /\ collaborationWriters' = IF collaborationWriters <= 1 THEN 0 ELSE collaborationWriters - 1
    /\ UNCHANGED <<barrier, issued, connections, externalWriters, captures, waiting, released>>

\* Mutant: an HTTP write leaves an open barrier alone.
BeginExternalUnderBarrier ==
    /\ ~Frozen(barrier)
    /\ externalWriters < MaxWriters
    /\ externalWriters' = externalWriters + 1
    /\ UNCHANGED <<barrier, issued, connections, collaborationWriters, captures,
                   waiting, released>>

BeginExternalUpdate ==
    /\ ~Frozen(barrier)
    /\ IF Open THEN Release("aborted") ELSE KeepBarrier
    /\ externalWriters < MaxWriters
    /\ externalWriters' = externalWriters + 1
    /\ UNCHANGED <<issued, connections, collaborationWriters, captures>>

EndExternalUpdate ==
    /\ externalWriters' = IF externalWriters <= 1 THEN 0 ELSE externalWriters - 1
    /\ UNCHANGED <<barrier, issued, connections, collaborationWriters, captures,
                   waiting, released>>

-----------------------------------------------------------------------------
(* Completion *)

\* captureCompletionSequence up to its await, for the barrier b just stored.
StartCapture(b) ==
    IF b.intention = "completion" /\ b.phase = "draining" /\ AllDrained(b)
    THEN /\ barrier' = [b EXCEPT !.phase = "confirming"]
         /\ captures' = captures \cup {[barrier |-> b.id, participants |-> b.participants,
                                        sequence |-> NoSequence]}
    ELSE /\ barrier' = b
         /\ UNCHANGED captures

BeginCompletion(u) ==
    /\ ~Open
    /\ externalWriters = 0
    /\ issued < MaxBarriers
    /\ StartCapture(NewBarrier("completion", u, "nobody", connections))
    /\ issued' = issued + 1
    /\ waiting' = waiting \cup {issued + 1}
    /\ UNCHANGED <<connections, collaborationWriters, externalWriters, released>>

CompletionDrained(id, p) ==
    /\ barrier.intention = "completion"
    /\ CanAcknowledge(id, p)
    /\ StartCapture(Drained(p))
    /\ UNCHANGED <<issued, connections, collaborationWriters, externalWriters,
                   waiting, released>>

\* readSequence() answers: the committed sequence at that moment.
CaptureReads(c, sequence) ==
    /\ c.sequence = NoSequence
    /\ captures' = (captures \ {c}) \cup {[c EXCEPT !.sequence = sequence]}
    /\ UNCHANGED <<barrier, issued, connections, collaborationWriters,
                   externalWriters, waiting, released>>

\* claimCompletion for the barrier b about to be stored.
ClaimCompletion(b) ==
    IF b.phase = "confirming" /\ b.serverSequence # NoSequence /\ AllConfirmed(b)
    THEN /\ barrier' = [b EXCEPT !.phase = "finalizing"]
         /\ waiting' = waiting \ {b.id}
    ELSE /\ barrier' = b
         /\ UNCHANGED waiting

\* captureCompletionSequence after its await.
CaptureResumes(c) ==
    /\ c.sequence # NoSequence
    /\ captures' = captures \ {c}
    /\ IF barrier.id # c.barrier \/ barrier.phase # "confirming"
       THEN KeepBarrier
       ELSE IF collaborationWriters > 0
            THEN Release("aborted")
            ELSE /\ ClaimCompletion([barrier EXCEPT !.serverSequence = c.sequence])
                 /\ UNCHANGED released
    /\ UNCHANGED <<issued, connections, collaborationWriters, externalWriters>>

\* readSequence() fails: the catch clause aborts the barrier if it is still there.
CaptureFails(c) ==
    /\ captures' = captures \ {c}
    /\ IF barrier.id = c.barrier THEN AbortBarrier ELSE KeepBarrier
    /\ UNCHANGED <<issued, connections, collaborationWriters, externalWriters>>

ConfirmCompletion(id, p, sequence) ==
    /\ barrier.intention = "completion"
    /\ barrier.id = id
    /\ barrier.phase = "confirming"
    /\ barrier.serverSequence = sequence
    /\ p \in barrier.participants
    /\ ClaimCompletion([barrier EXCEPT !.confirmed = @ \cup {p}])
    /\ UNCHANGED <<issued, connections, collaborationWriters, externalWriters,
                   captures, released>>

ClaimCompletionSubmission(u) ==
    /\ barrier.intention = "completion"
    /\ barrier.phase = "finalizing"
    /\ barrier.owner = u
    /\ barrier' = [barrier EXCEPT !.phase = "committing"]
    /\ UNCHANGED <<issued, connections, collaborationWriters, externalWriters,
                   captures, waiting, released>>

CancelCompletion(u) ==
    /\ barrier.intention = "completion"
    /\ barrier.owner = u
    /\ AbortBarrier
    /\ UNCHANGED <<issued, connections, collaborationWriters, externalWriters, captures>>

-----------------------------------------------------------------------------
(* The timer: five seconds to settle, thirty for a finalized completion.  *)
(* claim clears it, so a committing compaction has none.                  *)

TimerArmed == Open /\ ~(barrier.intention = "compaction" /\ barrier.phase = "committing")

Timeout ==
    /\ TimerArmed
    /\ Release("aborted")
    /\ UNCHANGED <<issued, connections, collaborationWriters, externalWriters, captures>>

\* The process restarts with a new coordinator; open HTTP calls are cut.
Restart ==
    /\ barrier' = NoBarrier
    /\ connections' = {}
    /\ collaborationWriters' = 0
    /\ externalWriters' = 0
    /\ captures' = {}
    /\ waiting' = {}
    /\ UNCHANGED <<issued, released>>

CoordinatorInit ==
    /\ barrier = NoBarrier
    /\ issued = 0
    /\ connections = {}
    /\ collaborationWriters = 0
    /\ externalWriters = 0
    /\ captures = {}
    /\ waiting = {}
    /\ released = [b \in BarrierIds |-> "none"]

\* complete and fail are called at the end of the transaction that claimed
\* barrier id; meanwhile the barrier may have expired.
Claimed(id) == barrier.id = id => barrier.phase = "committing"

\* Every method, called by anyone at any time with any argument, except that
\* a connection id is fresh when it joins and that a barrier is finished by
\* its claimant.
CoordinatorNext ==
    \/ \E p \in Connections, u \in Users, P \in SUBSET Connections : OpenCompaction(p, u, P)
    \/ \E p \in Connections \ barrier.participants : Join(p)
    \/ \E id \in BarrierIds, p \in Connections : Acknowledge(id, p)
    \/ \E id \in BarrierIds, s \in Sequences, there \in BOOLEAN : Ready(id, s, there)
    \/ \E u \in Users : Claim(u)
    \/ \E id \in BarrierIds : Claimed(id) /\ Complete(id)
    \/ \E id \in BarrierIds : Claimed(id) /\ Fail(id)
    \/ \E id \in BarrierIds : Abort(id)
    \/ \E p \in Connections : Disconnected(p)
    \/ \E p \in Connections : PrepareUpdate(p)
    \/ \E p \in Connections : AdmitUpdate(p)
    \/ EndCollaborationUpdate
    \/ BeginExternalUpdate
    \/ EndExternalUpdate
    \/ \E u \in Users : BeginCompletion(u)
    \/ \E id \in BarrierIds, p \in Connections : CompletionDrained(id, p)
    \/ \E c \in captures, s \in Sequences : CaptureReads(c, s)
    \/ \E c \in captures : CaptureResumes(c)
    \/ \E c \in captures : CaptureFails(c)
    \/ \E id \in BarrierIds, p \in Connections, s \in Sequences : ConfirmCompletion(id, p, s)
    \/ \E u \in Users : ClaimCompletionSubmission(u)
    \/ \E u \in Users : CancelCompletion(u)
    \/ Timeout
    \/ Restart

CoordinatorSpec == CoordinatorInit /\ [][CoordinatorNext]_coordinatorVars

-----------------------------------------------------------------------------
(* What the coordinator promises, whoever calls it *)

\* The values the fields of the class can hold.
CoordinatorTypeOK ==
    /\ barrier \in Barrier
    /\ issued \in 0..MaxBarriers
    /\ connections \in SUBSET Connections
    /\ collaborationWriters \in 0..MaxWriters
    /\ externalWriters \in 0..MaxWriters
    /\ captures \in SUBSET Capture
    /\ waiting \in SUBSET BarrierIds
    /\ released \in [BarrierIds -> Outcomes]

\* Once a barrier has left its drain round (confirming, ready, finalizing, and
\* a committing completion) everybody it waits for has drained.  The code only
\* compares set sizes, keeps `drained` across joins and lets clients join in
\* every phase.
DrainedRound ==
    (barrier.phase \in {"confirming", "ready", "finalizing"}
        \/ (barrier.phase = "committing" /\ barrier.intention = "completion"))
    => barrier.drained = barrier.participants

\* A completion is granted and claimed only for a known sequence that every
\* participant confirmed, and nobody is added to it afterwards.
ConfirmedRound ==
    (barrier.intention = "completion" /\ Frozen(barrier))
    => /\ barrier.confirmed = barrier.participants
       /\ barrier.serverSequence # NoSequence

\* A round is complete when it is left, whoever joins, leaves or repeats himself.
RoundsAreComplete == DrainedRound /\ ConfirmedRound

\* No prepareCompletion request is forgotten: while its promise is unsettled
\* its barrier is the current one and has not been finalized, so the timer,
\* an abort or the claim will still settle it.
UnsettledPrepareHasBarrier ==
    \A id \in waiting : barrier.id = id /\ barrier.intention = "completion" /\ ~Frozen(barrier)

\* An HTTP document write and a barrier exclude each other: the write aborts
\* or is refused, and open refuses while one is at work.
BarrierExcludesExternalWriters == Open => externalWriters = 0

\* A barrier is finished at most once and its outcome is never taken back:
\* the current barrier has no outcome yet, and an outcome broadcast to the
\* clients stays what it was.
CurrentBarrierUnreleased == Open => released[barrier.id] = "none"

OutcomeIsFinal ==
    [][\A b \in BarrierIds : released[b] # "none" => released'[b] = released[b]]_coordinatorVars

\* While a completion is frozen its round does not change any more: the same
\* participants, the same confirmed sequence, until it is released.
FrozenCompletionIsStable ==
    [][(barrier.intention = "completion" /\ Frozen(barrier) /\ barrier'.id = barrier.id)
       => /\ barrier'.participants = barrier.participants
          /\ barrier'.serverSequence = barrier.serverSequence
          /\ Frozen(barrier')]_coordinatorVars
=============================================================================
