------------------------- MODULE MeetingServerProofs -------------------------
(***************************************************************************)
(* The safety properties of the server hold for every number of            *)
(* connections, users, barriers, requests and accepted updates.            *)
(*                                                                         *)
(* Most steps of the server run one method of the coordinator, or write    *)
(* one row, and leave the claimed transactions alone: PlainStep.  What a   *)
(* method does to the barrier is one of three moves: it stores a changed   *)
(* record, draws a new barrier, or releases the current one as aborted.    *)
(* The steps of a claimed transaction are then taken one by one.           *)
(***************************************************************************)
EXTENDS MeetingServer, CoordinatorAndDocumentProofs

\* Connections whose socket has entered the room, now or once.
Entered == {c \in Connections : sockets[c] \in {"open", "closing", "closed"}}

\* The methods that claim nothing, finish nothing and let nobody in.
QuietMethod ==
    \/ \E id \in BarrierIds, p \in Connections : Acknowledge(id, p) \/ CompletionDrained(id, p)
    \/ \E id \in BarrierIds, s \in Sequences, there \in BOOLEAN : Ready(id, s, there)
    \/ \E id \in BarrierIds : Abort(id)
    \/ \E p \in Connections : Disconnected(p) \/ PrepareUpdate(p) \/ AdmitUpdate(p)
    \/ EndCollaborationUpdate \/ BeginExternalUpdate \/ EndExternalUpdate
    \/ \E u \in Users : BeginCompletion(u) \/ CancelCompletion(u)
    \/ \E c \in captures, s \in Sequences : CaptureReads(c, s)
    \/ \E c \in captures : CaptureResumes(c) \/ CaptureFails(c)
    \/ \E id \in BarrierIds, p \in Connections, s \in Sequences : ConfirmCompletion(id, p, s)
    \/ Timeout

CommittingCompaction == barrier.phase = "committing" /\ barrier.intention = "compaction"

StoreBarrier ==
    /\ barrier'.id = barrier.id
    /\ barrier'.intention = barrier.intention
    /\ barrier.phase = "committing" => barrier'.phase = "committing"
    /\ UNCHANGED <<issued, released>>

DrawBarrier ==
    /\ ~Open
    /\ issued' = issued + 1
    /\ barrier'.id = issued + 1
    /\ UNCHANGED released

AbortedBarrier ==
    /\ ~CommittingCompaction
    /\ Release("aborted")
    /\ UNCHANGED issued

BarrierMoves == StoreBarrier \/ DrawBarrier \/ AbortedBarrier

NoNewcomers ==
    /\ connections' \subseteq connections
    /\ barrier'.participants \subseteq barrier.participants \cup connections

JoinStep(c) ==
    /\ sockets[c] = "consumed"
    /\ sockets' = [sockets EXCEPT ![c] = "open"]
    /\ Join(c)

OpenStep(c) == OpenCompaction(c, UserOf[c], OpenSockets) /\ UNCHANGED sockets

QuietStep == (QuietMethod \/ UNCHANGED coordinatorVars) /\ Entered \subseteq Entered'

DocumentWrite ==
    \/ \E e \in Epochs, k \in 1..MaxSequence, parent \in SnapshotIds : AppendUpdate(e, k, parent)
    \/ \E s \in PatchedStatuses : UpdateMeeting(s)

PlainStep ==
    /\ UNCHANGED tx
    /\ DocumentWrite \/ UNCHANGED documentVars
    /\ QuietStep \/ \E c \in Connections : JoinStep(c) \/ OpenStep(c)

-----------------------------------------------------------------------------
(* The invariant *)

RelayTypeOK ==
    /\ sockets \in [Connections -> SocketStates]
    /\ handler \in [Connections -> HandlerStates]
    /\ requested \in SUBSET Connections
    /\ reads \in SUBSET Read
    /\ preparing \in SUBSET Users
    /\ external \in [ExternalRequests -> ExternalStates]
    /\ tx \in [BarrierIds -> Tx]
    /\ closeTimer \in BOOLEAN

\* Who takes part has entered: a connection that enters is new to the barrier.
ParticipantsEntered == barrier.participants \cup connections \subseteq Entered

\* The current barrier is the last one drawn.
CurrentIsLast == barrier.id \in {0, issued}

\* A claimed barrier stays claimed while it is current, and its number is never
\* drawn again: no second transaction can claim it.
ClaimedOnce ==
    \A b \in BarrierIds :
        IF Steps(b) = "none" THEN tx[b] = NoTx
        ELSE /\ b <= issued
             /\ tx[b].kind \in Intentions
             /\ barrier.id = b => barrier.phase = "committing" /\ barrier.intention = tx[b].kind

BaseInv ==
    /\ IInv
    /\ LogInv
    /\ RelayTypeOK
    /\ ParticipantsEntered
    /\ CurrentIsLast
    /\ ClaimedOnce

\* Whoever holds the Meeting row has found the Meeting open.
HeldIsOpen == rowLock # NoLock => status # "completed"

SealInv ==
    /\ RowLockHasHolder
    /\ HeldIsOpen
    /\ CheckedSequenceIsCurrent
    /\ SealedAtCurrentSequence

\* A committed transaction has done what it will be announced for.
CommittedIsDone ==
    \A b \in BarrierIds :
        Steps(b) = "committed"
        => IF tx[b].kind = "completion" THEN status = "completed" ELSE snapshot.id >= b

TruthInv ==
    /\ snapshot.id <= issued
    /\ CommittedIsDone
    /\ OutcomeIsTrue

-----------------------------------------------------------------------------
(* The coordinator's methods, as moves of the barrier *)

\* abort marks a committing completion, spares a committing compaction and
\* releases any other barrier.
LEMMA AbortMoves ==
    ASSUME Core, AbortBarrier, UNCHANGED issued
    PROVE  BarrierMoves /\ barrier'.participants \subseteq barrier.participants
<1>1. CASE barrier.phase = "committing"
  BY <1>1 DEF AbortBarrier, BarrierMoves, StoreBarrier, Core, GoodBarrier, Barrier
<1>2. CASE barrier.phase # "committing"
  BY <1>2 DEF AbortBarrier, BarrierMoves, AbortedBarrier, CommittingCompaction, Release, NoBarrier
<1> QED  BY <1>1, <1>2

\* A release of a barrier that is no committing compaction.
LEMMA ReleaseMoves ==
    ASSUME Release("aborted"), UNCHANGED issued, ~CommittingCompaction
    PROVE  BarrierMoves /\ barrier'.participants \subseteq barrier.participants
BY DEF BarrierMoves, AbortedBarrier, Release, NoBarrier

\* A method that keeps the barrier makes a trivial move.
LEMMA KeepMoves ==
    ASSUME UNCHANGED <<barrier, issued, released>>
    PROVE  BarrierMoves /\ barrier'.participants \subseteq barrier.participants
BY DEF BarrierMoves, StoreBarrier

\* captureCompletionSequence changes nothing of a barrier but its phase.
LEMMA CaptureStores ==
    ASSUME NEW b, b \in Barrier, StartCapture(b)
    PROVE  /\ barrier'.id = b.id /\ barrier'.intention = b.intention
           /\ barrier'.participants = b.participants
BY DEF StartCapture, Barrier

\* claimCompletion too.
LEMMA ClaimStores ==
    ASSUME NEW b, b \in Barrier, ClaimCompletion(b)
    PROVE  /\ barrier'.id = b.id /\ barrier'.intention = b.intention
           /\ barrier'.participants = b.participants
BY DEF ClaimCompletion, Barrier

\* A quiet method makes one of the moves and lets nobody in.
LEMMA QuietMoves ==
    ASSUME IInv, QuietMethod
    PROVE  BarrierMoves /\ NoNewcomers
<1> DEFINE Goal == BarrierMoves /\ NoNewcomers
<1>0. Core /\ barrier \in Barrier /\ connections \in SUBSET Connections
  BY DEF IInv, Core, GoodBarrier, RestTypeOK
<1>1. ASSUME NEW id \in BarrierIds, NEW p \in Connections, Acknowledge(id, p) PROVE Goal
  BY <1>0, <1>1 DEF Acknowledge, CanAcknowledge, Drained, Barrier, BarrierMoves, StoreBarrier,
                    NoNewcomers
<1>2. ASSUME NEW id \in BarrierIds, NEW p \in Connections, CompletionDrained(id, p) PROVE Goal
  <2>1. Drained(p) \in Barrier /\ Drained(p).id = barrier.id
        /\ Drained(p).intention = barrier.intention
        /\ Drained(p).participants = barrier.participants
    BY <1>0, <1>2 DEF CompletionDrained, CanAcknowledge, Drained, Barrier
  <2>2. StartCapture(Drained(p)) /\ barrier.phase = "draining"
        /\ UNCHANGED <<issued, released, connections>>
    BY <1>2 DEF CompletionDrained, CanAcknowledge
  <2>3. barrier'.id = barrier.id /\ barrier'.intention = barrier.intention
        /\ barrier'.participants = barrier.participants
    BY <2>1, <2>2, CaptureStores
  <2> QED  BY <2>2, <2>3 DEF BarrierMoves, StoreBarrier, NoNewcomers
<1>3. ASSUME NEW id \in BarrierIds, NEW s \in Sequences, NEW there \in BOOLEAN,
             Ready(id, s, there)
      PROVE  Goal
  <2>1. barrier.phase = "draining" /\ UNCHANGED <<issued, connections>>
    BY <1>3 DEF Ready
  <2>2. CASE there
    BY <1>0, <1>3, <2>1, <2>2 DEF Ready, Barrier, BarrierMoves, StoreBarrier, NoNewcomers
  <2>3. CASE ~there
    BY <1>3, <2>1, <2>3, ReleaseMoves DEF Ready, CommittingCompaction, NoNewcomers
  <2> QED  BY <2>2, <2>3
<1>4. ASSUME NEW id \in BarrierIds, Abort(id) PROVE Goal
  BY <1>0, <1>4, AbortMoves DEF Abort, NoNewcomers
<1>5. ASSUME NEW p \in Connections, Disconnected(p) PROVE Goal
  BY <1>0, <1>5, AbortMoves, KeepMoves DEF Disconnected, KeepBarrier, NoNewcomers
<1>6. ASSUME NEW p \in Connections, PrepareUpdate(p) \/ AdmitUpdate(p) PROVE Goal
  <2>1. ~CommittingCompaction /\ UNCHANGED <<issued, connections>>
        /\ (Release("aborted") \/ KeepBarrier)
    BY <1>6 DEF PrepareUpdate, AdmitUpdate, CommittingCompaction, Frozen
  <2> QED  BY <2>1, ReleaseMoves, KeepMoves DEF KeepBarrier, NoNewcomers
<1>7. ASSUME EndCollaborationUpdate \/ BeginExternalUpdate \/ EndExternalUpdate PROVE Goal
  <2>1. UNCHANGED <<issued, connections>>
        /\ (KeepBarrier \/ (~CommittingCompaction /\ Release("aborted")))
    BY <1>7 DEF EndCollaborationUpdate, BeginExternalUpdate, EndExternalUpdate, KeepBarrier,
                CommittingCompaction, Frozen
  <2> QED  BY <2>1, ReleaseMoves, KeepMoves DEF KeepBarrier, NoNewcomers
<1>8. ASSUME NEW u \in Users, BeginCompletion(u) PROVE Goal
  <2> DEFINE b == NewBarrier("completion", u, "nobody", connections)
  <2>1. b \in Barrier /\ b.id = issued + 1 /\ b.participants = connections
    <3>1. b.id = issued + 1 /\ b.participants = connections
      BY DEF NewBarrier, NoBarrier
    <3>2. ~Open /\ issued < MaxBarriers
      BY <1>8 DEF BeginCompletion
    <3>3. GoodBarrier(b)
      BY <1>0, <3>2, DrawnIsGood DEF Intentions
    <3> QED  BY <3>1, <3>3 DEF GoodBarrier
  <2>2. StartCapture(b) /\ ~Open /\ issued' = issued + 1 /\ UNCHANGED <<connections, released>>
    BY <1>8 DEF BeginCompletion
  <2> HIDE DEF b
  <2>3. barrier'.id = issued + 1 /\ barrier'.participants = connections
    BY <2>1, <2>2, CaptureStores
  <2> QED  BY <2>2, <2>3 DEF BarrierMoves, DrawBarrier, NoNewcomers
<1>9. ASSUME NEW u \in Users, CancelCompletion(u) PROVE Goal
  BY <1>0, <1>9, AbortMoves DEF CancelCompletion, NoNewcomers
<1>10. ASSUME NEW c \in captures, NEW s \in Sequences, CaptureReads(c, s) PROVE Goal
  BY <1>10, KeepMoves DEF CaptureReads, NoNewcomers
<1>11. ASSUME NEW c \in captures, CaptureResumes(c) PROVE Goal
  <2>1. c.sequence \in Sequences /\ UNCHANGED <<issued, connections>>
    BY <1>11 DEF CaptureResumes, IInv, RestTypeOK, Capture
  <2>2. CASE barrier.id # c.barrier \/ barrier.phase # "confirming"
    BY <1>11, <2>1, <2>2, KeepMoves DEF CaptureResumes, KeepBarrier, NoNewcomers
  <2>3. CASE barrier.id = c.barrier /\ barrier.phase = "confirming" /\ collaborationWriters > 0
    BY <1>11, <2>1, <2>3, ReleaseMoves DEF CaptureResumes, CommittingCompaction, NoNewcomers
  <2>4. CASE barrier.id = c.barrier /\ barrier.phase = "confirming" /\ ~(collaborationWriters > 0)
    <3> DEFINE b == [barrier EXCEPT !.serverSequence = c.sequence]
    <3>1. b \in Barrier /\ b.id = barrier.id /\ b.intention = barrier.intention
          /\ b.participants = barrier.participants
      BY <1>0, <2>1 DEF Barrier
    <3>2. ClaimCompletion(b) /\ UNCHANGED released
      BY <1>11, <2>4 DEF CaptureResumes
    <3> HIDE DEF b
    <3> QED  BY <2>1, <2>4, <3>1, <3>2, ClaimStores DEF BarrierMoves, StoreBarrier, NoNewcomers
  <2> QED  BY <2>2, <2>3, <2>4
<1>12. ASSUME NEW c \in captures, CaptureFails(c) PROVE Goal
  BY <1>0, <1>12, AbortMoves, KeepMoves DEF CaptureFails, KeepBarrier, NoNewcomers
<1>13. ASSUME NEW id \in BarrierIds, NEW p \in Connections, NEW s \in Sequences,
              ConfirmCompletion(id, p, s)
       PROVE  Goal
  <2> DEFINE b == [barrier EXCEPT !.confirmed = @ \cup {p}]
  <2>1. b \in Barrier /\ b.id = barrier.id /\ b.intention = barrier.intention
        /\ b.participants = barrier.participants
    BY <1>0 DEF Barrier
  <2>2. ClaimCompletion(b) /\ barrier.phase = "confirming"
        /\ UNCHANGED <<issued, connections, released>>
    BY <1>13 DEF ConfirmCompletion
  <2> HIDE DEF b
  <2> QED  BY <2>1, <2>2, ClaimStores DEF BarrierMoves, StoreBarrier, NoNewcomers
<1>14. ASSUME Timeout PROVE Goal
  BY <1>14, ReleaseMoves DEF Timeout, TimerArmed, CommittingCompaction, NoNewcomers
<1> HIDE DEF Goal
<1>15. Goal
  BY <1>1, <1>2, <1>3, <1>4, <1>5, <1>6, <1>7, <1>8, <1>9, <1>10, <1>11, <1>12, <1>13, <1>14
  DEF QuietMethod
<1> QED  BY <1>15 DEF Goal

\* A plain step makes one of the moves, and whoever takes part has entered.
LEMMA PlainMoves ==
    ASSUME BaseInv, PlainStep
    PROVE  BarrierMoves /\ ParticipantsEntered'
<1>0. IInv /\ Core /\ barrier \in Barrier /\ ParticipantsEntered
      /\ sockets \in [Connections -> SocketStates]
  BY DEF BaseInv, IInv, Core, GoodBarrier, RelayTypeOK
<1>1. CASE QuietStep
  <2>1. BarrierMoves /\ NoNewcomers
    BY <1>0, <1>1, QuietMoves DEF QuietStep, coordinatorVars, BarrierMoves, StoreBarrier, NoNewcomers
  <2> QED  BY <1>0, <1>1, <2>1 DEF QuietStep, NoNewcomers, ParticipantsEntered
<1>2. ASSUME NEW c \in Connections, JoinStep(c) PROVE BarrierMoves /\ ParticipantsEntered'
  <2>1. barrier' = Joined(barrier, c) /\ connections' = connections \cup {c}
        /\ UNCHANGED <<issued, released>>
    BY <1>2 DEF JoinStep, Join
  <2>2. Joined(barrier, c).id = barrier.id /\ Joined(barrier, c).intention = barrier.intention
    BY <1>0, JoinedIsGood
  <2>3. barrier.phase = "committing" => Joined(barrier, c).phase = "committing"
    BY <1>0 DEF Joined, Barrier
  <2>4. Joined(barrier, c).participants \subseteq barrier.participants \cup {c}
    BY <1>0 DEF Joined, Barrier
  <2>5. Entered' = Entered \cup {c}
    BY <1>0, <1>2 DEF JoinStep, Entered, SocketStates
  <2> QED  BY <1>0, <2>1, <2>2, <2>3, <2>4, <2>5 DEF BarrierMoves, StoreBarrier, ParticipantsEntered
<1>3. ASSUME NEW c \in Connections, OpenStep(c) PROVE BarrierMoves /\ ParticipantsEntered'
  <2>1. barrier' = NewBarrier("compaction", UserOf[c], c, OpenSockets) /\ ~Open
        /\ issued' = issued + 1 /\ UNCHANGED <<released, connections, sockets>>
    BY <1>3 DEF OpenStep, OpenCompaction
  <2>2. barrier'.id = issued + 1 /\ barrier'.participants = OpenSockets
    BY <2>1 DEF NewBarrier, NoBarrier
  <2>3. OpenSockets \subseteq Entered /\ Entered' = Entered
    BY <2>1 DEF OpenSockets, Entered
  <2> QED  BY <1>0, <2>1, <2>2, <2>3 DEF BarrierMoves, DrawBarrier, ParticipantsEntered
<1> QED  BY <1>1, <1>2, <1>3 DEF PlainStep

\* A move of the barrier keeps what is known of claimed transactions.
LEMMA MovesKeepClaims ==
    ASSUME BaseInv, BarrierMoves, UNCHANGED tx
    PROVE  CurrentIsLast' /\ ClaimedOnce' /\ issued \in Nat /\ issued' \in Nat /\ issued <= issued'
<1>1. issued \in Nat /\ CurrentIsLast /\ ClaimedOnce
  BY CoordinatorConstants DEF CoordinatorConstants, BaseInv, IInv, Core, CoreTypeOK
<1>2. CASE StoreBarrier
  BY <1>1, <1>2 DEF StoreBarrier, CurrentIsLast, ClaimedOnce, Steps
<1>3. CASE DrawBarrier
  BY <1>1, <1>3 DEF DrawBarrier, CurrentIsLast, ClaimedOnce, Steps, BarrierIds
<1>4. CASE AbortedBarrier
  BY <1>1, <1>4 DEF AbortedBarrier, Release, NoBarrier, CurrentIsLast, ClaimedOnce, Steps, BarrierIds
<1> QED  BY <1>2, <1>3, <1>4 DEF BarrierMoves

-----------------------------------------------------------------------------
(* Which steps are plain *)

\* Steps of sockets.
LEMMA SocketStepsArePlain ==
    ASSUME BaseInv, NEW c \in Connections, SocketStep(c)
    PROVE  PlainStep /\ RelayTypeOK'
<1>0. sockets \in [Connections -> SocketStates] /\ RelayTypeOK
  BY DEF BaseInv, RelayTypeOK
<1>1. CASE ConsumeTicket(c) \/ CloseUnjoined(c) \/ StartClosing(c) \/ Reauthorize(c)
  <2>1. UNCHANGED <<coordinatorVars, documentVars, handler, requested, reads, preparing,
                    external, tx, closeTimer>>
        /\ \E s \in {"consumed", "closing", "closed"} :
              sockets' = [sockets EXCEPT ![c] = s] /\ (s = "consumed" => sockets[c] = "new")
    BY <1>1 DEF ConsumeTicket, CloseUnjoined, StartClosing, Reauthorize
  <2>2. Entered \subseteq Entered'
    BY <1>0, <2>1 DEF Entered, SocketStates
  <2>3. RelayTypeOK'
    BY <1>0, <2>1 DEF RelayTypeOK, SocketStates
  <2> QED  BY <2>1, <2>2, <2>3 DEF PlainStep, QuietStep
<1>2. CASE JoinRoom(c)
  <2>1. PlainStep
    BY <1>2 DEF JoinRoom, PlainStep, JoinStep
  <2>2. RelayTypeOK'
    BY <1>0, <1>2 DEF JoinRoom, RelayTypeOK, SocketStates
  <2> QED  BY <2>1, <2>2
<1>3. CASE RemoveSocket(c)
  <2>1. /\ sockets' = [sockets EXCEPT ![c] = "closed"] /\ Disconnected(c)
        /\ UNCHANGED <<documentVars, handler, requested, reads, preparing, external, tx, closeTimer>>
    BY <1>3 DEF RemoveSocket
  <2>2. Entered \subseteq Entered'
    BY <1>0, <2>1 DEF Entered
  <2>3. RelayTypeOK'
    BY <1>0, <2>1 DEF RelayTypeOK, SocketStates
  <2> QED  BY <2>1, <2>2, <2>3 DEF PlainStep, QuietStep, QuietMethod
<1> QED  BY <1>1, <1>2, <1>3 DEF SocketStep

\* A step that changes none of the sockets keeps who has entered.
LEMMA SameSockets ==
    ASSUME UNCHANGED sockets PROVE Entered' = Entered
BY DEF Entered

\* Steps of an update frame and of an HTTP write.
LEMMA WriteStepsArePlain ==
    ASSUME BaseInv,
           \/ \E c \in Connections : UpdateStep(c)
           \/ \E w \in ExternalRequests : ExternalStep(w)
           \/ ChangeStatus
    PROVE  PlainStep /\ RelayTypeOK'
<1>0. RelayTypeOK
  BY DEF BaseInv
<1>1. ASSUME NEW c \in Connections, UpdateStep(c) PROVE PlainStep /\ RelayTypeOK'
  <2>1. /\ UNCHANGED <<sockets, requested, reads, preparing, external, tx, closeTimer>>
        /\ \E s \in HandlerStates : handler' = [handler EXCEPT ![c] = s]
        /\ DocumentWrite \/ UNCHANGED documentVars
    BY <1>1 DEF UpdateStep, ReceiveUpdate, StartUpdate, RefuseUpdate, WriteUpdate, EndUpdate,
                HandlerStates, DocumentWrite
  <2>2. QuietMethod \/ UNCHANGED coordinatorVars
    BY <1>1 DEF UpdateStep, ReceiveUpdate, StartUpdate, RefuseUpdate, WriteUpdate, EndUpdate,
                QuietMethod
  <2>3. RelayTypeOK'
    BY <1>0, <2>1 DEF RelayTypeOK
  <2> QED  BY <2>1, <2>2, <2>3, SameSockets DEF PlainStep, QuietStep
<1>2. ASSUME NEW w \in ExternalRequests, ExternalStep(w) PROVE PlainStep /\ RelayTypeOK'
  <2>1. /\ UNCHANGED <<sockets, handler, requested, reads, preparing, tx, closeTimer>>
        /\ \E s \in ExternalStates : external' = [external EXCEPT ![w] = s]
        /\ DocumentWrite \/ UNCHANGED documentVars
    BY <1>2 DEF ExternalStep, BeginExternal, WriteExternal, EndExternal, ExternalStates,
                DocumentWrite
  <2>2. QuietMethod \/ UNCHANGED coordinatorVars
    BY <1>2 DEF ExternalStep, BeginExternal, WriteExternal, EndExternal, QuietMethod
  <2>3. RelayTypeOK'
    BY <1>0, <2>1 DEF RelayTypeOK
  <2> QED  BY <2>1, <2>2, <2>3, SameSockets DEF PlainStep, QuietStep
<1>3. ASSUME ChangeStatus PROVE PlainStep /\ RelayTypeOK'
  <2>1. DocumentWrite /\ UNCHANGED <<coordinatorVars, relayVars, tx>>
    BY <1>3 DEF ChangeStatus, DocumentWrite
  <2> QED  BY <1>0, <2>1, SameSockets DEF PlainStep, QuietStep, RelayTypeOK, relayVars
<1> QED  BY <1>1, <1>2, <1>3

\* Frames that drain, confirm or report a failure, and the compaction request.
LEMMA FrameStepsArePlain ==
    ASSUME BaseInv, NEW c \in Connections, FrameStep(c)
    PROVE  PlainStep /\ RelayTypeOK'
<1>0. RelayTypeOK
  BY DEF BaseInv
<1>1. CASE RequestCompaction(c)
  BY <1>0, <1>1, SameSockets DEF RequestCompaction, PlainStep, QuietStep, RelayTypeOK
<1>2. CASE OpenRequested(c)
  <2>1. /\ UNCHANGED <<documentVars, sockets, handler, reads, preparing, external, tx, closeTimer>>
        /\ requested' = requested \ {c}
        /\ OpenStep(c) \/ UNCHANGED coordinatorVars
    BY <1>2 DEF OpenRequested, OpenStep
  <2>2. RelayTypeOK'
    BY <1>0, <2>1 DEF RelayTypeOK
  <2> QED  BY <2>1, <2>2, SameSockets DEF PlainStep, QuietStep
<1>3. ASSUME NEW id \in BarrierIds, DrainCompaction(c, id) PROVE PlainStep /\ RelayTypeOK'
  <2>1. UNCHANGED <<documentVars, sockets, handler, requested, preparing, external, tx, closeTimer>>
        /\ Acknowledge(id, c)
    BY <1>3 DEF DrainCompaction
  <2>2. [barrier |-> id, connection |-> c, sequence |-> NoSequence] \in Read
    BY DEF Read
  <2>3. reads' \in SUBSET Read
    BY <1>0, <1>3, <2>2 DEF DrainCompaction, RelayTypeOK
  <2>4. RelayTypeOK'
    BY <1>0, <2>1, <2>3 DEF RelayTypeOK
  <2> QED  BY <2>1, <2>4, SameSockets DEF PlainStep, QuietStep, QuietMethod
<1>4. ASSUME NEW id \in BarrierIds, ReportFailure(c, id) PROVE PlainStep /\ RelayTypeOK'
  BY <1>0, <1>4, SameSockets
  DEF ReportFailure, relayVars, PlainStep, QuietStep, QuietMethod, RelayTypeOK
<1>5. ASSUME NEW id \in BarrierIds, DrainCompletion(c, id) PROVE PlainStep /\ RelayTypeOK'
  BY <1>0, <1>5, SameSockets
  DEF DrainCompletion, relayVars, PlainStep, QuietStep, QuietMethod, RelayTypeOK
<1>6. ASSUME NEW id \in BarrierIds, NEW s \in Sequences, Confirm(c, id, s)
      PROVE  PlainStep /\ RelayTypeOK'
  BY <1>0, <1>6, SameSockets
  DEF Confirm, relayVars, PlainStep, QuietStep, QuietMethod, RelayTypeOK
<1> QED  BY <1>1, <1>2, <1>3, <1>4, <1>5, <1>6 DEF FrameStep

\* The sequence reads, the timers and the requests that claim nothing.
LEMMA OtherStepsArePlain ==
    ASSUME BaseInv,
           \/ ReadStep \/ BarrierTimeout \/ CloseCompleted
           \/ \E u \in Users : CheckCompletion(u) \/ PrepareCompletion(u) \/ Cancel(u)
    PROVE  PlainStep /\ RelayTypeOK'
<1>0. RelayTypeOK /\ currentServerSequence \in Sequences
  BY ServerConstants DEF ServerConstants, BaseInv, LogInv, DocumentTypeOK
<1>1. ASSUME NEW r \in reads, ReadDrained(r) PROVE PlainStep /\ RelayTypeOK'
  <2>1. r \in Read
    BY <1>0 DEF RelayTypeOK
  <2>2. [r EXCEPT !.sequence = currentServerSequence] \in Read
    BY <1>0, <2>1 DEF Read
  <2>3. RelayTypeOK'
    BY <1>0, <1>1, <2>2 DEF ReadDrained, RelayTypeOK
  <2> QED  BY <1>1, <2>3, SameSockets DEF ReadDrained, PlainStep, QuietStep
<1>2. ASSUME NEW r \in reads, ResumeDrained(r) PROVE PlainStep /\ RelayTypeOK'
  <2>1. r.barrier \in BarrierIds /\ r.sequence \in Sequences
    BY <1>0, <1>2 DEF ResumeDrained, RelayTypeOK, Read
  <2>2. (barrier.compactor \in OpenSockets) \in BOOLEAN
    OBVIOUS
  <2>3. QuietMethod \/ UNCHANGED coordinatorVars
    BY <1>2, <2>1, <2>2 DEF ResumeDrained, QuietMethod
  <2>4. RelayTypeOK'
    BY <1>0, <1>2 DEF ResumeDrained, RelayTypeOK
  <2> QED  BY <1>2, <2>3, <2>4, SameSockets DEF ResumeDrained, PlainStep, QuietStep
<1>3. ASSUME NEW r \in captures, ReadCapture(r) \/ ResumeCapture(r) \/ FailCapture(r)
      PROVE  PlainStep /\ RelayTypeOK'
  BY <1>0, <1>3, SameSockets
  DEF ReadCapture, ResumeCapture, FailCapture, relayVars, PlainStep, QuietStep, QuietMethod,
      RelayTypeOK
<1>4. ASSUME BarrierTimeout PROVE PlainStep /\ RelayTypeOK'
  BY <1>0, <1>4, SameSockets
  DEF BarrierTimeout, relayVars, PlainStep, QuietStep, QuietMethod, RelayTypeOK
<1>5. ASSUME CloseCompleted PROVE PlainStep /\ RelayTypeOK'
  <2>1. /\ sockets' = [c \in Connections |-> IF sockets[c] = "open" THEN "closing" ELSE sockets[c]]
        /\ closeTimer' = FALSE
        /\ UNCHANGED <<coordinatorVars, documentVars, handler, requested, reads, preparing,
                       external, tx>>
    BY <1>5 DEF CloseCompleted
  <2>2. Entered \subseteq Entered'
    BY <2>1 DEF Entered
  <2>3. RelayTypeOK'
    BY <1>0, <2>1 DEF RelayTypeOK, SocketStates
  <2> QED  BY <2>1, <2>2, <2>3 DEF PlainStep, QuietStep
<1>6. ASSUME NEW u \in Users, CheckCompletion(u) PROVE PlainStep /\ RelayTypeOK'
  BY <1>0, <1>6, SameSockets DEF CheckCompletion, PlainStep, QuietStep, RelayTypeOK
<1>7. ASSUME NEW u \in Users, PrepareCompletion(u) PROVE PlainStep /\ RelayTypeOK'
  BY <1>0, <1>7, SameSockets
  DEF PrepareCompletion, PlainStep, QuietStep, QuietMethod, RelayTypeOK
<1>8. ASSUME NEW u \in Users, Cancel(u) PROVE PlainStep /\ RelayTypeOK'
  BY <1>0, <1>8, SameSockets
  DEF Cancel, relayVars, PlainStep, QuietStep, QuietMethod, RelayTypeOK
<1> QED  BY <1>1, <1>2, <1>3, <1>4, <1>5, <1>6, <1>7, <1>8 DEF ReadStep

\* Every step is plain, claims a barrier, belongs to a claimed transaction, or
\* is a restart.
LEMMA StepsOfTheServer ==
    ASSUME BaseInv, Next
    PROVE  \/ PlainStep /\ RelayTypeOK'
           \/ \E u \in Users : SubmitCompaction(u) \/ SubmitCompletion(u)
           \/ \E b \in BarrierIds : TxStep(b)
           \/ RestartServer
BY SocketStepsArePlain, WriteStepsArePlain, FrameStepsArePlain, OtherStepsArePlain
DEF Next, RequestStep

-----------------------------------------------------------------------------
(* The steps of the claimed transactions *)

\* A barrier is claimed when it is ready: nobody has claimed it before.
LEMMA SubmitClaims ==
    ASSUME BaseInv, NEW u \in Users, SubmitCompaction(u) \/ SubmitCompletion(u)
    PROVE  /\ barrier.id \in BarrierIds /\ barrier.id <= issued /\ Steps(barrier.id) = "none"
           /\ tx' = [tx EXCEPT ![barrier.id] = [kind |-> barrier.intention, step |-> "claimed",
                                                sequence |-> barrier.serverSequence]]
           /\ barrier' = [barrier EXCEPT !.phase = "committing"]
           /\ barrier.serverSequence \in Sequences \cup {NoSequence}
           /\ barrier.intention \in Intentions
           /\ UNCHANGED <<issued, connections, released, documentVars, relayVars>>
<1>0. GoodBarrier(barrier) /\ Ledger /\ ClaimedOnce
  BY DEF BaseInv, IInv, Core
<1>1. /\ barrier.phase \in {"ready", "finalizing"}
      /\ tx' = [tx EXCEPT ![barrier.id] = [kind |-> barrier.intention, step |-> "claimed",
                                           sequence |-> barrier.serverSequence]]
      /\ barrier' = [barrier EXCEPT !.phase = "committing"]
      /\ UNCHANGED <<issued, connections, released, documentVars, relayVars>>
  BY DEF SubmitCompaction, SubmitCompletion, Claim, ClaimCompletionSubmission
<1>2. /\ barrier.id \in BarrierIds /\ barrier.id <= issued
      /\ barrier.serverSequence \in Sequences \cup {NoSequence}
      /\ barrier.intention \in Intentions
  BY <1>0, <1>1 DEF GoodBarrier, Barrier, Ledger
<1>3. Steps(barrier.id) = "none"
  BY <1>0, <1>1, <1>2 DEF ClaimedOnce
<1> QED  BY <1>1, <1>2, <1>3

\* A transaction that is under way moves on by itself; only its last step, which
\* releases the barrier, and its writes are seen outside.
LEMMA TxStepMoves ==
    ASSUME BaseInv, NEW b \in BarrierIds, TxStep(b)
    PROVE  /\ Steps(b) \notin {"none", "done"}
           /\ \E s \in TxSteps \ {"none"} : tx' = [tx EXCEPT ![b].step = s]
           /\ UNCHANGED <<sockets, handler, requested, reads, preparing, external>>
           /\ closeTimer' \in BOOLEAN
           /\ UNCHANGED coordinatorVars \/ Complete(b) \/ Fail(b)
<1>1. CASE LockCompaction(b) \/ PersistCompaction(b) \/ EnterCompletion(b) \/ LockCompletion(b)
           \/ PersistCompletion(b) \/ ConfirmClaim(b)
  BY <1>1 DEF BaseInv, RelayTypeOK, LockCompaction, PersistCompaction, EnterCompletion,
              LockCompletion, PersistCompletion, ConfirmClaim, InStep, Steps, GoTo, relayVars, TxSteps
<1>2. CASE Commit(b)
  BY <1>2 DEF BaseInv, RelayTypeOK, Commit, Steps, GoTo, relayVars, TxSteps
<1>3. CASE FailTx(b) \/ FinishTx(b) \/ AbandonTx(b)
  BY <1>3 DEF BaseInv, RelayTypeOK, FailTx, FinishTx, AbandonTx, Steps, GoTo, relayVars, TxSteps
<1> QED  BY <1>1, <1>2, <1>3 DEF TxStep

\* Finishing a barrier forgets it, or leaves another one alone.
LEMMA FinishForgets ==
    ASSUME BaseInv, NEW b \in BarrierIds, Complete(b) \/ Fail(b)
    PROVE  /\ UNCHANGED <<issued, connections>>
           /\ IF barrier.id = b THEN barrier' = NoBarrier ELSE UNCHANGED <<barrier, released>>
           /\ \A a \in BarrierIds \ {b} : released'[a] = released[a]
<1>1. released \in [BarrierIds -> Outcomes]
  BY DEF BaseInv, IInv, Core, CoreTypeOK
<1> QED  BY <1>1 DEF Complete, Fail, Finish, Release, KeepBarrier

-----------------------------------------------------------------------------
(* The server uses the coordinator and the document as they may be used *)

\* Every step of the server is a call of the coordinator that its contract
\* allows, or no call.
LEMMA NextUsesCoordinator ==
    BaseInv /\ [Next]_vars => [CoordinatorNext]_coordinatorVars
<1> SUFFICES ASSUME BaseInv, [Next]_vars PROVE CoordinatorNext \/ UNCHANGED coordinatorVars
  OBVIOUS
<1>1. CASE PlainStep
  <2>1. ASSUME QuietMethod PROVE CoordinatorNext
    BY <2>1 DEF QuietMethod, CoordinatorNext
  <2>2. ASSUME NEW c \in Connections, JoinStep(c) PROVE CoordinatorNext
    <3>1. c \notin barrier.participants
      BY <2>2 DEF JoinStep, BaseInv, ParticipantsEntered, Entered
    <3> QED  BY <2>2, <3>1 DEF JoinStep, CoordinatorNext
  <2>3. ASSUME NEW c \in Connections, OpenStep(c) PROVE CoordinatorNext
    <3>1. UserOf[c] \in Users /\ OpenSockets \in SUBSET Connections
      BY ServerConstants DEF ServerConstants, OpenSockets
    <3> QED  BY <2>3, <3>1 DEF OpenStep, CoordinatorNext
  <2> QED  BY <1>1, <2>1, <2>2, <2>3 DEF PlainStep, QuietStep
<1>2. ASSUME NEW u \in Users, SubmitCompaction(u) \/ SubmitCompletion(u) PROVE CoordinatorNext
  BY <1>2 DEF SubmitCompaction, SubmitCompletion, CoordinatorNext
<1>3. ASSUME NEW b \in BarrierIds, TxStep(b) PROVE CoordinatorNext \/ UNCHANGED coordinatorVars
  <2>1. Claimed(b)
    BY <1>3, TxStepMoves DEF BaseInv, ClaimedOnce, Claimed
  <2>2. UNCHANGED coordinatorVars \/ Complete(b) \/ Fail(b)
    BY <1>3, TxStepMoves
  <2> QED  BY <2>1, <2>2 DEF CoordinatorNext
<1>4. CASE RestartServer
  BY <1>4 DEF RestartServer, CoordinatorNext
<1>5. CASE UNCHANGED vars
  BY <1>5 DEF vars
<1> QED  BY <1>1, <1>2, <1>3, <1>4, <1>5, StepsOfTheServer

\* Every step of the server is an operation of the stored document, or none.
LEMMA NextUsesDocument ==
    BaseInv /\ [Next]_vars => [DocumentNext]_documentVars
<1> SUFFICES ASSUME BaseInv, [Next]_vars PROVE DocumentNext \/ UNCHANGED documentVars
  OBVIOUS
<1>0. Transactions = BarrierIds /\ Sequences = 0..MaxSequence
      /\ PatchedStatuses \subseteq Statuses \ {"completed"}
      /\ {"planned", "in_progress"} \in SUBSET Statuses /\ {"in_progress"} \in SUBSET Statuses
  BY ServerConstants DEF ServerConstants, Statuses
<1>1. CASE PlainStep
  BY <1>0, <1>1 DEF PlainStep, DocumentWrite, DocumentNext
<1>2. ASSUME NEW u \in Users, SubmitCompaction(u) \/ SubmitCompletion(u)
      PROVE  UNCHANGED documentVars
  BY <1>2 DEF SubmitCompaction, SubmitCompletion
<1>3. ASSUME NEW b \in BarrierIds, TxStep(b) PROVE DocumentNext \/ UNCHANGED documentVars
  <2>1. b \in Transactions /\ tx[b].sequence \in 0..MaxSequence \cup {NotCompleted}
    BY <1>0 DEF BaseInv, RelayTypeOK, Tx, NoSequence, NotCompleted
  <2>2. CASE LockCompaction(b) \/ LockCompletion(b)
    BY <1>0, <2>1, <2>2 DEF LockCompaction, LockCompletion, DocumentNext
  <2>3. CASE Commit(b)
    BY <2>1, <2>3 DEF Commit, DocumentNext
  <2>4. CASE FailTx(b)
    BY <2>1, <2>4 DEF FailTx, DocumentNext
  <2>5. CASE PersistCompaction(b) \/ EnterCompletion(b) \/ PersistCompletion(b)
             \/ ConfirmClaim(b) \/ FinishTx(b) \/ AbandonTx(b)
    BY <2>5 DEF PersistCompaction, EnterCompletion, PersistCompletion, ConfirmClaim, FinishTx, AbandonTx
  <2> QED  BY <1>3, <2>2, <2>3, <2>4, <2>5 DEF TxStep
<1>4. CASE RestartServer
  BY <1>4 DEF RestartServer, DocumentNext
<1>5. CASE UNCHANGED vars
  BY <1>5 DEF vars
<1> QED  BY <1>1, <1>2, <1>3, <1>4, <1>5, StepsOfTheServer

\* The backend starts with nobody in the room and nothing claimed.
LEMMA InitEstablishesBaseInv ==
    Init => BaseInv
<1> SUFFICES ASSUME Init PROVE BaseInv
  OBVIOUS
<1>1. IInv /\ LogInv
  BY InitEstablishesIInv, InitEstablishesLogInv DEF Init
<1>2. RelayTypeOK
  BY DEF Init, RelayTypeOK, SocketStates, HandlerStates, ExternalStates, Tx, NoTx, TxSteps
<1>3. ParticipantsEntered /\ CurrentIsLast
  BY DEF Init, CoordinatorInit, NoBarrier, ParticipantsEntered, CurrentIsLast
<1>4. ClaimedOnce
  BY DEF Init, NoTx, ClaimedOnce, Steps
<1> QED  BY <1>1, <1>2, <1>3, <1>4 DEF BaseInv

\* Every step of the server preserves what is known of barriers and claims.
LEMMA NextPreservesBaseInv ==
    BaseInv /\ [Next]_vars => BaseInv'
<1> SUFFICES ASSUME BaseInv, [Next]_vars PROVE BaseInv'
  OBVIOUS
<1> DEFINE Rest == RelayTypeOK' /\ ParticipantsEntered' /\ CurrentIsLast' /\ ClaimedOnce'
<1>0. IInv' /\ LogInv'
  BY NextUsesCoordinator, NextUsesDocument, NextPreservesIInv, NextPreservesLogInv DEF BaseInv
<1>a. RelayTypeOK /\ ParticipantsEntered /\ CurrentIsLast /\ ClaimedOnce /\ issued \in Nat
      /\ barrier \in Barrier /\ 0 \notin BarrierIds
  BY CoordinatorConstants
  DEF CoordinatorConstants, BaseInv, IInv, Core, CoreTypeOK, GoodBarrier, BarrierIds
<1>1. ASSUME PlainStep, RelayTypeOK' PROVE Rest
  BY <1>1, PlainMoves, MovesKeepClaims DEF PlainStep
<1>2. ASSUME NEW u \in Users, SubmitCompaction(u) \/ SubmitCompletion(u) PROVE Rest
  <2> DEFINE t == [kind |-> barrier.intention, step |-> "claimed", sequence |-> barrier.serverSequence]
  <2>1. /\ barrier.id \in BarrierIds /\ barrier.id <= issued
        /\ tx' = [tx EXCEPT ![barrier.id] = t]
        /\ barrier' = [barrier EXCEPT !.phase = "committing"]
        /\ UNCHANGED <<issued, connections, relayVars>>
    BY <1>2, SubmitClaims
  <2>2. t \in Tx /\ t.kind = barrier.intention /\ t.step = "claimed" /\ t.kind \in Intentions
    BY <1>2, SubmitClaims DEF Tx, TxSteps
  <2> HIDE DEF t
  <2>3. RelayTypeOK'
    BY <1>a, <2>1, <2>2 DEF RelayTypeOK, relayVars
  <2>4. barrier'.id = barrier.id /\ barrier'.phase = "committing"
        /\ barrier'.intention = barrier.intention /\ barrier'.participants = barrier.participants
    BY <1>a, <2>1 DEF Barrier
  <2>5. ParticipantsEntered' /\ CurrentIsLast'
    BY <1>a, <2>1, <2>4 DEF ParticipantsEntered, CurrentIsLast, Entered, relayVars
  <2>6. ClaimedOnce'
    BY <1>a, <2>1, <2>2, <2>4 DEF ClaimedOnce, Steps, RelayTypeOK
  <2> QED  BY <2>3, <2>5, <2>6
<1>3. ASSUME NEW b \in BarrierIds, TxStep(b) PROVE Rest
  <2>1. PICK s \in TxSteps \ {"none"} : tx' = [tx EXCEPT ![b].step = s]
    BY <1>3, TxStepMoves
  <2>2. /\ Steps(b) \notin {"none", "done"} /\ closeTimer' \in BOOLEAN
        /\ UNCHANGED <<sockets, handler, requested, reads, preparing, external>>
        /\ UNCHANGED coordinatorVars \/ Complete(b) \/ Fail(b)
    BY <1>3, TxStepMoves
  <2>3. RelayTypeOK'
    BY <1>a, <2>1, <2>2 DEF RelayTypeOK, Tx
  <2>4. UNCHANGED <<issued, connections>> /\ (barrier' = NoBarrier \/ barrier' = barrier)
    BY <2>2, FinishForgets DEF coordinatorVars
  <2>5. ParticipantsEntered' /\ CurrentIsLast'
    BY <1>a, <2>2, <2>4 DEF ParticipantsEntered, CurrentIsLast, Entered, NoBarrier
  <2>6. \A a \in BarrierIds : /\ (tx'[a].step = "none") <=> (tx[a].step = "none")
                              /\ tx'[a].kind = tx[a].kind
                              /\ a # b => tx'[a] = tx[a]
    BY <1>a, <2>1, <2>2 DEF RelayTypeOK, Tx, Steps
  <2>7. ClaimedOnce'
    BY <1>a, <2>2, <2>4, <2>6 DEF ClaimedOnce, Steps, NoBarrier
  <2> QED  BY <2>3, <2>5, <2>7
<1>4. ASSUME RestartServer PROVE Rest
  <2>1. /\ barrier' = NoBarrier /\ connections' = {} /\ UNCHANGED issued
        /\ tx' = [b \in BarrierIds |-> IF tx[b] = NoTx THEN NoTx ELSE [tx[b] EXCEPT !.step = "done"]]
    BY <1>4 DEF RestartServer, Restart
  <2>2. RelayTypeOK'
    <3>1. tx' \in [BarrierIds -> Tx]
      BY <1>a, <2>1 DEF RelayTypeOK, Tx, TxSteps
    <3>2. /\ sockets' = [c \in Connections |-> IF sockets[c] = "new" THEN "new" ELSE "closed"]
          /\ handler' = [c \in Connections |-> "idle"]
          /\ external' = [w \in ExternalRequests |-> "idle"]
          /\ requested' = {} /\ reads' = {} /\ preparing' = {} /\ closeTimer' = FALSE
      BY <1>4 DEF RestartServer
    <3> QED  BY <3>1, <3>2 DEF RelayTypeOK, SocketStates, HandlerStates, ExternalStates
  <2>3. ParticipantsEntered' /\ CurrentIsLast'
    BY <2>1 DEF ParticipantsEntered, CurrentIsLast, NoBarrier
  <2>4. ClaimedOnce'
    BY <1>a, <2>1 DEF ClaimedOnce, Steps, NoBarrier, NoTx, RelayTypeOK, Tx
  <2> QED  BY <2>2, <2>3, <2>4
<1>5. ASSUME UNCHANGED vars PROVE Rest
  BY <1>a, <1>5
  DEF vars, relayVars, coordinatorVars, RelayTypeOK, ParticipantsEntered, CurrentIsLast,
      ClaimedOnce, Steps, Entered
<1> HIDE DEF Rest
<1>6. Rest
  BY <1>1, <1>2, <1>3, <1>4, <1>5, StepsOfTheServer
<1> QED  BY <1>0, <1>6 DEF BaseInv, Rest

\* The base invariant holds in every reachable state of the server.
THEOREM BaseInvariance == Spec => []BaseInv
BY InitEstablishesBaseInv, NextPreservesBaseInv, PTL DEF Spec

\* The relay and the services call the coordinator as its contract says: a
\* connection joins once, a barrier is finished by its claimant.  So what is
\* proved of the coordinator holds of the server.
THEOREM ServerUsesCoordinator == Spec => CoordinatorSpec
<1>1. Init => CoordinatorInit
  BY DEF Init
<1> QED  BY <1>1, BaseInvariance, NextUsesCoordinator, PTL DEF Spec, CoordinatorSpec

\* Nothing but the operations of meeting-document.service.ts and the PATCH
\* touches the stored document.
THEOREM ServerUsesDocument == Spec => DocumentSpec
<1>1. Init => DocumentInit
  BY DEF Init
<1> QED  BY <1>1, BaseInvariance, NextUsesDocument, PTL DEF Spec, DocumentSpec

\* Whatever the relay, the HTTP requests, the timers and restarts do, no
\* accepted update is lost, stored twice or reordered.
THEOREM ServerKeepsLog == Spec => []LogIsSound
BY ServerUsesDocument, LogSoundHolds, PTL

\* To its authors the whole server is an append-only log that is sealed once.
THEOREM ServerImplementsLog == Spec => ImplementsLog
BY ServerUsesDocument, DocumentImplementsLog, PTL

-----------------------------------------------------------------------------
(* What is sealed is what was checked *)

\* A transaction that moves on changes nothing but its own step.
LEMMA GoToMoves ==
    ASSUME BaseInv, NEW b \in BarrierIds, NEW s, GoTo(b, s)
    PROVE  /\ tx'[b].step = s /\ tx'[b].kind = tx[b].kind /\ tx'[b].sequence = tx[b].sequence
           /\ \A a \in BarrierIds \ {b} : tx'[a] = tx[a]
BY DEF BaseInv, RelayTypeOK, Tx, GoTo

\* A restart ends every transaction.
LEMMA RestartEnds ==
    ASSUME BaseInv, RestartServer, NEW b \in BarrierIds
    PROVE  /\ tx'[b].step \in {"none", "done"}
           /\ tx'[b].kind = tx[b].kind
           /\ tx[b].step # "none" => tx'[b].step = "done"
BY DEF BaseInv, RelayTypeOK, Tx, RestartServer, ClaimedOnce, Steps, NoTx

Held == {"locked", "persisted", "committing"}

\* Between the check of the sequence and the commit nothing slips in: an update
\* needs the Meeting row, and the row has one holder.
LEMMA NextPreservesSealInv ==
    BaseInv /\ SealInv /\ [Next]_vars => SealInv'
<1> SUFFICES ASSUME BaseInv, SealInv, [Next]_vars PROVE SealInv'
  OBVIOUS
<1> USE DEF SealInv
<1>0. /\ \A b \in BarrierIds : rowLock = b <=> tx[b].step \in Held
      /\ \A b \in BarrierIds :
            tx[b].step \in {"persisted", "committing"} => currentServerSequence = tx[b].sequence
      /\ HeldIsOpen /\ SealedAtCurrentSequence /\ NoLock \notin BarrierIds
  BY CoordinatorConstants
  DEF CoordinatorConstants, RowLockHasHolder, CheckedSequenceIsCurrent, Steps, Held, NoLock, BarrierIds
<1>1. ASSUME /\ \A b \in BarrierIds : rowLock' = b <=> tx'[b].step \in Held
             /\ \A b \in BarrierIds :
                   tx'[b].step \in {"persisted", "committing"}
                   => currentServerSequence' = tx'[b].sequence
             /\ HeldIsOpen' /\ SealedAtCurrentSequence'
      PROVE  SealInv'
  BY <1>1 DEF RowLockHasHolder, CheckedSequenceIsCurrent, Steps, Held
<1>2. ASSUME PlainStep PROVE SealInv'
  <2>1. tx' = tx /\ PatchedStatuses \subseteq {"planned", "in_progress"}
    BY <1>2, ServerConstants DEF PlainStep, ServerConstants
  <2>2. CASE UNCHANGED documentVars
    BY <1>0, <1>1, <2>1, <2>2 DEF documentVars, HeldIsOpen, SealedAtCurrentSequence
  <2>3. CASE DocumentWrite
    <3>1. rowLock = NoLock /\ rowLock' = NoLock /\ status' # "completed"
      BY <2>1, <2>3 DEF DocumentWrite, AppendUpdate, UpdateMeeting
    <3> QED  BY <1>0, <1>1, <2>1, <3>1 DEF HeldIsOpen, SealedAtCurrentSequence, Held
  <2> QED  BY <1>2, <2>2, <2>3 DEF PlainStep
<1>3. ASSUME NEW u \in Users, SubmitCompaction(u) \/ SubmitCompletion(u) PROVE SealInv'
  <2>1. /\ barrier.id \in BarrierIds /\ tx[barrier.id].step = "none"
        /\ tx' = [tx EXCEPT ![barrier.id] = [kind |-> barrier.intention, step |-> "claimed",
                                             sequence |-> barrier.serverSequence]]
        /\ UNCHANGED documentVars
    BY <1>3, SubmitClaims DEF Steps
  <2>2. tx'[barrier.id].step = "claimed" /\ \A a \in BarrierIds \ {barrier.id} : tx'[a] = tx[a]
    BY <2>1 DEF BaseInv, RelayTypeOK
  <2> QED  BY <1>0, <1>1, <2>1, <2>2 DEF documentVars, HeldIsOpen, SealedAtCurrentSequence, Held
<1>4. ASSUME NEW b \in BarrierIds, TxStep(b) PROVE SealInv'
  <2>1. CASE LockCompaction(b) \/ LockCompletion(b)
    <3>1. /\ rowLock = NoLock /\ rowLock' = b /\ status # "completed" /\ GoTo(b, "locked")
          /\ UNCHANGED <<status, currentServerSequence, completedServerSequence>>
      BY <2>1 DEF LockCompaction, LockCompletion, LockMeeting
    <3>2. tx'[b].step = "locked" /\ \A a \in BarrierIds \ {b} : tx'[a] = tx[a]
      BY <3>1, GoToMoves
    <3> QED  BY <1>0, <1>1, <3>1, <3>2 DEF HeldIsOpen, SealedAtCurrentSequence, Held
  <2>2. CASE PersistCompaction(b) \/ PersistCompletion(b) \/ ConfirmClaim(b)
    <3>1. PICK s \in {"persisted", "committing"} : GoTo(b, s)
      BY <2>2 DEF PersistCompaction, PersistCompletion, ConfirmClaim
    <3>2. /\ tx[b].step \in Held /\ currentServerSequence = tx[b].sequence
          /\ UNCHANGED documentVars
      BY <1>0, <2>2 DEF PersistCompaction, PersistCompletion, ConfirmClaim, InStep, Held
    <3>3. /\ tx'[b].step = s /\ tx'[b].sequence = tx[b].sequence
          /\ \A a \in BarrierIds \ {b} : tx'[a] = tx[a]
      BY <3>1, GoToMoves
    <3> QED
      BY <1>0, <1>1, <3>2, <3>3 DEF documentVars, HeldIsOpen, SealedAtCurrentSequence, Held
  <2>3. CASE EnterCompletion(b) \/ FinishTx(b) \/ AbandonTx(b)
    <3>1. PICK s \in {"entered", "done"} : GoTo(b, s)
      BY <2>3 DEF EnterCompletion, FinishTx, AbandonTx
    <3>2. tx[b].step \in {"claimed", "committed", "failed"} /\ UNCHANGED documentVars
      BY <2>3 DEF EnterCompletion, FinishTx, AbandonTx, InStep, Steps
    <3>3. tx'[b].step = s /\ \A a \in BarrierIds \ {b} : tx'[a] = tx[a]
      BY <3>1, GoToMoves
    <3> QED
      BY <1>0, <1>1, <3>2, <3>3 DEF documentVars, HeldIsOpen, SealedAtCurrentSequence, Held
  <2>4. CASE Commit(b)
    <3>1. PICK s \in {"committed", "failed"} : GoTo(b, s)
      BY <2>4 DEF Commit
    <3>2. tx[b].step = "committing" /\ rowLock = b /\ rowLock' = NoLock
          /\ UNCHANGED currentServerSequence
      BY <2>4 DEF Commit, Steps, CommitCompletion, CommitCompaction
    <3>3. tx'[b].step = s /\ \A a \in BarrierIds \ {b} : tx'[a] = tx[a]
      BY <3>1, GoToMoves
    <3>4. SealedAtCurrentSequence'
      BY <1>0, <2>4, <3>2 DEF Commit, CommitCompletion, CommitCompaction, SealedAtCurrentSequence
    <3> QED  BY <1>0, <1>1, <3>2, <3>3, <3>4 DEF HeldIsOpen, Held
  <2>5. CASE FailTx(b)
    <3>1. /\ GoTo(b, "failed") /\ rowLock' = (IF rowLock = b THEN NoLock ELSE rowLock)
          /\ UNCHANGED <<status, currentServerSequence, completedServerSequence>>
      BY <2>5 DEF FailTx, Rollback
    <3>2. tx'[b].step = "failed" /\ \A a \in BarrierIds \ {b} : tx'[a] = tx[a]
      BY <3>1, GoToMoves
    <3> QED  BY <1>0, <1>1, <3>1, <3>2 DEF HeldIsOpen, SealedAtCurrentSequence, Held
  <2> QED  BY <1>4, <2>1, <2>2, <2>3, <2>4, <2>5 DEF TxStep
<1>5. ASSUME RestartServer PROVE SealInv'
  <2>1. rowLock' = NoLock /\ UNCHANGED <<status, currentServerSequence, completedServerSequence>>
    BY <1>5 DEF RestartServer
  <2>2. \A b \in BarrierIds : tx'[b].step \in {"none", "done"}
    BY <1>5, RestartEnds
  <2> QED  BY <1>0, <1>1, <2>1, <2>2 DEF HeldIsOpen, SealedAtCurrentSequence, Held
<1>6. ASSUME UNCHANGED vars PROVE SealInv'
  BY <1>0, <1>1, <1>6 DEF vars, documentVars, HeldIsOpen, SealedAtCurrentSequence
<1> QED  BY <1>2, <1>3, <1>4, <1>5, <1>6, StepsOfTheServer

\* The backend starts with the row free.
LEMMA InitEstablishesSealInv ==
    Init => SealInv
BY CoordinatorConstants
DEF CoordinatorConstants, Init, DocumentInit, SealInv, RowLockHasHolder, HeldIsOpen,
    CheckedSequenceIsCurrent, SealedAtCurrentSequence, Steps, NoTx, NoLock, BarrierIds

\* Both invariants hold together.
THEOREM SealInvariance == Spec => [](BaseInv /\ SealInv)
BY BaseInvariance, InitEstablishesSealInv, NextPreservesSealInv, PTL DEF Spec

\* The sequence a completion seals, and the one a compaction covers, is the last
\* there is, for as many writers and timers as there may be.
THEOREM SealsHold == Spec => []SealsWhatWasChecked
<1>1. SealInv => SealsWhatWasChecked
  BY DEF SealInv, SealsWhatWasChecked
<1> QED  BY <1>1, SealInvariance, PTL

\* Nothing of a completed Meeting's document changes any more: who commits holds
\* the row, and found the Meeting open when he took it.
THEOREM CompletedStaysHolds == Spec => CompletedIsImmutable
<1>1. ASSUME BaseInv, SealInv, [Next]_vars, status = "completed"
      PROVE  UNCHANGED <<status, currentServerSequence, completedServerSequence, snapshot, updates>>
  <2>1. rowLock = NoLock /\ NoLock \notin BarrierIds
    BY <1>1, CoordinatorConstants DEF CoordinatorConstants, SealInv, HeldIsOpen, NoLock, BarrierIds
  <2>2. CASE PlainStep
    BY <1>1, <2>2 DEF PlainStep, DocumentWrite, AppendUpdate, UpdateMeeting, documentVars
  <2>3. CASE \E u \in Users : SubmitCompaction(u) \/ SubmitCompletion(u)
    BY <2>3 DEF SubmitCompaction, SubmitCompletion, documentVars
  <2>4. ASSUME NEW b \in BarrierIds, TxStep(b)
        PROVE  UNCHANGED <<status, currentServerSequence, completedServerSequence, snapshot, updates>>
    <3>1. ~Commit(b)
      BY <2>1 DEF Commit, CommitCompletion, CommitCompaction
    <3> QED
      BY <2>4, <3>1
      DEF TxStep, LockCompaction, PersistCompaction, EnterCompletion, LockCompletion,
          PersistCompletion, ConfirmClaim, FailTx, FinishTx, AbandonTx, LockMeeting, Rollback,
          documentVars
  <2>5. CASE RestartServer
    BY <2>5 DEF RestartServer
  <2>6. CASE UNCHANGED vars
    BY <2>6 DEF vars, documentVars
  <2> QED  BY <1>1, <2>2, <2>3, <2>4, <2>5, <2>6, StepsOfTheServer
<1>2. BaseInv /\ SealInv /\ [Next]_vars
      => [status = "completed"
          => UNCHANGED <<status, currentServerSequence, completedServerSequence,
                         snapshot, updates>>]_documentVars
  BY <1>1
<1> QED  BY <1>2, SealInvariance, PTL DEF Spec, CompletedIsImmutable

-----------------------------------------------------------------------------
(* Compactions keep their barrier and leave a trace only when they happened *)

\* The barrier of a compaction that is under way is a committing compaction.
LEMMA UnderWayIsCommitting ==
    ASSUME BaseInv, CompactionKeepsBarrier, NEW b \in BarrierIds,
           tx[b].kind = "compaction", tx[b].step # "done"
    PROVE  barrier.id = b /\ CommittingCompaction /\ Open
<1>1. barrier.id = b /\ barrier.phase = "committing"
  BY DEF CompactionKeepsBarrier, Steps
<1>2. Steps(b) # "none"
  BY DEF BaseInv, ClaimedOnce, NoTx
<1> QED  BY <1>1, <1>2 DEF BaseInv, ClaimedOnce, CommittingCompaction, Open

\* No timer, disconnect, join or failure frame takes the barrier from a
\* compaction that is being carried out.
LEMMA NextPreservesKeepsBarrier ==
    BaseInv /\ CompactionKeepsBarrier /\ [Next]_vars => CompactionKeepsBarrier'
<1> SUFFICES ASSUME BaseInv, CompactionKeepsBarrier, [Next]_vars,
                    NEW b \in BarrierIds, tx'[b].kind = "compaction", tx'[b].step # "done"
             PROVE  barrier'.id = b /\ barrier'.phase = "committing"
  BY DEF CompactionKeepsBarrier, Steps
<1> DEFINE Kept == barrier'.id = b /\ barrier'.phase = "committing"
<1>1. ASSUME PlainStep PROVE Kept
  <2>1. barrier.id = b /\ CommittingCompaction /\ Open
    BY <1>1, UnderWayIsCommitting DEF PlainStep
  <2>2. BarrierMoves
    BY <1>1, PlainMoves
  <2> QED
    BY <2>1, <2>2 DEF BarrierMoves, StoreBarrier, DrawBarrier, AbortedBarrier, CommittingCompaction
<1>2. ASSUME NEW u \in Users, SubmitCompaction(u) \/ SubmitCompletion(u) PROVE Kept
  <2>1. /\ barrier.id \in BarrierIds /\ barrier.phase # "committing"
        /\ barrier' = [barrier EXCEPT !.phase = "committing"]
        /\ tx' = [tx EXCEPT ![barrier.id] = [kind |-> barrier.intention, step |-> "claimed",
                                             sequence |-> barrier.serverSequence]]
    BY <1>2, SubmitClaims
    DEF SubmitCompaction, SubmitCompletion, Claim, ClaimCompletionSubmission
  <2>2. barrier \in Barrier /\ tx \in [BarrierIds -> Tx]
    BY DEF BaseInv, IInv, Core, GoodBarrier, RelayTypeOK
  <2>3. CASE b = barrier.id
    BY <2>1, <2>2, <2>3 DEF Barrier
  <2>4. CASE b # barrier.id
    BY <2>1, <2>2, <2>4, UnderWayIsCommitting DEF CommittingCompaction
  <2> QED  BY <2>3, <2>4
<1>3. ASSUME NEW a \in BarrierIds, TxStep(a) PROVE Kept
  <2>1. PICK s \in TxSteps : GoTo(a, s) /\ (s = "done" \/ UNCHANGED coordinatorVars)
    BY <1>3
    DEF TxStep, LockCompaction, PersistCompaction, EnterCompletion, LockCompletion,
        PersistCompletion, ConfirmClaim, Commit, FailTx, FinishTx, AbandonTx, TxSteps
  <2>2. /\ tx'[a].step = s /\ tx'[a].kind = tx[a].kind /\ tx[a].step # "done"
        /\ \A x \in BarrierIds \ {a} : tx'[x] = tx[x]
    BY <1>3, <2>1, GoToMoves, TxStepMoves DEF Steps
  <2>3. barrier.id = b /\ CommittingCompaction
    BY <2>2, UnderWayIsCommitting
  <2>4. CASE UNCHANGED coordinatorVars
    BY <2>3, <2>4 DEF coordinatorVars, CommittingCompaction
  <2>5. CASE s = "done"
    <3>1. b # a
      BY <2>2, <2>5
    <3>2. UNCHANGED coordinatorVars \/ Complete(a) \/ Fail(a)
      BY <1>3, TxStepMoves
    <3>3. UNCHANGED barrier
      BY <2>3, <3>1, <3>2, FinishForgets DEF coordinatorVars
    <3> QED  BY <2>3, <3>3 DEF CommittingCompaction
  <2> QED  BY <2>1, <2>4, <2>5
<1>4. ASSUME RestartServer PROVE Kept
  <2>1. tx'[b].step = "none" /\ tx'[b].kind = tx[b].kind /\ (tx[b].step # "none" => FALSE)
    BY <1>4, RestartEnds
  <2> QED  BY <2>1 DEF BaseInv, ClaimedOnce, Steps, NoTx
<1>5. ASSUME UNCHANGED vars PROVE Kept
  BY <1>5, UnderWayIsCommitting DEF vars, coordinatorVars, CommittingCompaction
<1> QED  BY <1>1, <1>2, <1>3, <1>4, <1>5, StepsOfTheServer

\* The active snapshot is the one of a compaction that committed and was not
\* announced as aborted; a lost answer to COMMIT would break this.
LeavesNoTrace ==
    ~CommitAckLoss =>
    \A b \in BarrierIds :
        snapshot.id = b
        => /\ tx[b].kind = "compaction"
           /\ \/ tx[b].step = "committed"
              \/ tx[b].step = "done" /\ barrier.id # b /\ released[b] # "aborted"

WholeInv == CompactionKeepsBarrier /\ LeavesNoTrace

\* A move writes an outcome only for the current barrier.
LEMMA MovesKeepOutcomes ==
    ASSUME BaseInv, BarrierMoves, NEW b \in BarrierIds
    PROVE  /\ b <= issued /\ barrier.id # b => barrier'.id # b /\ released'[b] = released[b]
           /\ released'[b] \in {released[b], "aborted"}
<1>1. released \in [BarrierIds -> Outcomes] /\ issued \in Nat /\ b \in Nat \ {0}
  BY CoordinatorConstants
  DEF CoordinatorConstants, BaseInv, IInv, Core, CoreTypeOK, BarrierIds
<1> QED
  BY <1>1 DEF BarrierMoves, StoreBarrier, DrawBarrier, AbortedBarrier, Release, NoBarrier

\* An aborted compaction has not touched the snapshot.
LEMMA NextPreservesLeavesNoTrace ==
    BaseInv /\ WholeInv /\ [Next]_vars => LeavesNoTrace'
<1> SUFFICES ASSUME BaseInv, WholeInv, [Next]_vars, ~CommitAckLoss,
                    NEW b \in BarrierIds, snapshot'.id = b
             PROVE  /\ tx'[b].kind = "compaction"
                    /\ \/ tx'[b].step = "committed"
                       \/ tx'[b].step = "done" /\ barrier'.id # b /\ released'[b] # "aborted"
  BY DEF LeavesNoTrace
<1> DEFINE Goal == /\ tx'[b].kind = "compaction"
                   /\ \/ tx'[b].step = "committed"
                      \/ tx'[b].step = "done" /\ barrier'.id # b /\ released'[b] # "aborted"
<1>0. ASSUME snapshot.id = b
      PROVE  /\ tx[b].kind = "compaction"
             /\ \/ tx[b].step = "committed"
                \/ tx[b].step = "done" /\ barrier.id # b /\ released[b] # "aborted"
             /\ tx[b].step # "none" /\ b <= issued
  BY <1>0 DEF WholeInv, LeavesNoTrace, BaseInv, ClaimedOnce, Steps
<1>1. ASSUME PlainStep PROVE Goal
  <2>1. snapshot' = snapshot /\ tx' = tx
    BY <1>1 DEF PlainStep, DocumentWrite, AppendUpdate, UpdateMeeting, documentVars
  <2> QED  BY <1>0, <1>1, <2>1, PlainMoves, MovesKeepOutcomes
<1>2. ASSUME NEW u \in Users, SubmitCompaction(u) \/ SubmitCompletion(u) PROVE Goal
  <2>1. /\ barrier.id \in BarrierIds /\ tx[barrier.id].step = "none"
        /\ barrier' = [barrier EXCEPT !.phase = "committing"]
        /\ tx' = [tx EXCEPT ![barrier.id] = [kind |-> barrier.intention, step |-> "claimed",
                                             sequence |-> barrier.serverSequence]]
        /\ UNCHANGED <<released, documentVars>>
    BY <1>2, SubmitClaims DEF Steps
  <2>2. snapshot.id = b /\ barrier'.id = barrier.id
    BY <2>1 DEF documentVars, BaseInv, IInv, Core, GoodBarrier, Barrier
  <2>3. b # barrier.id /\ tx'[b] = tx[b]
    BY <1>0, <2>1, <2>2 DEF BaseInv, RelayTypeOK
  <2> QED  BY <1>0, <2>1, <2>2, <2>3
<1>3. ASSUME NEW a \in BarrierIds, TxStep(a) PROVE Goal
  <2>1. CASE Commit(a) /\ tx[a].kind # "completion"
    <3>1. a = b /\ tx[a].kind = "compaction"
      BY <2>1 DEF Commit, CommitCompaction, BaseInv, ClaimedOnce, Steps, Intentions
    <3>2. GoTo(a, "committed")
      BY <2>1 DEF Commit
    <3> QED  BY <3>1, <3>2, GoToMoves
  <2>2. CASE ~(Commit(a) /\ tx[a].kind # "completion")
    <3>1. snapshot.id = b
      BY <1>3, <2>2
      DEF TxStep, LockCompaction, PersistCompaction, EnterCompletion, LockCompletion,
          PersistCompletion, ConfirmClaim, Commit, FailTx, FinishTx, AbandonTx, LockMeeting,
          Rollback, CommitCompletion, documentVars
    <3>2. CASE a = b
      <4>1. tx[a].step = "committed" /\ tx[a].kind = "compaction"
        BY <1>0, <1>3, <3>1, <3>2, TxStepMoves DEF Steps
      <4>2. FinishTx(a)
        BY <1>3, <4>1
        DEF TxStep, LockCompaction, PersistCompaction, EnterCompletion, LockCompletion,
            PersistCompletion, ConfirmClaim, Commit, FailTx, AbandonTx, InStep, Steps
      <4>3. tx'[a].step = "done" /\ tx'[a].kind = "compaction"
        BY <4>1, <4>2, GoToMoves DEF FinishTx
      <4>4. barrier.id = a /\ barrier.intention = "compaction"
        BY <4>1, UnderWayIsCommitting DEF WholeInv, CommittingCompaction
      <4>5. barrier' = NoBarrier /\ released' = [released EXCEPT ![a] = "compacted"]
        BY <4>2, <4>4 DEF FinishTx, Complete, Finish, Release
      <4>6. barrier'.id # a /\ released'[a] = "compacted"
        BY <4>5, CoordinatorConstants
        DEF CoordinatorConstants, NoBarrier, BarrierIds, BaseInv, IInv, Core, CoreTypeOK
      <4> QED  BY <3>2, <4>3, <4>6
    <3>3. CASE a # b
      <4>1. tx'[b] = tx[b]
        BY <1>3, <3>3, TxStepMoves DEF BaseInv, RelayTypeOK
      <4>2. UNCHANGED coordinatorVars \/ Complete(a) \/ Fail(a)
        BY <1>3, TxStepMoves
      <4>3. (barrier'.id = barrier.id \/ barrier'.id = 0) /\ released'[b] = released[b]
        BY <3>3, <4>2, FinishForgets DEF coordinatorVars, NoBarrier
      <4>4. b # 0
        BY CoordinatorConstants DEF CoordinatorConstants, BarrierIds
      <4> QED  BY <1>0, <3>1, <4>1, <4>3, <4>4
    <3> QED  BY <3>2, <3>3
  <2> QED  BY <2>1, <2>2
<1>4. ASSUME RestartServer PROVE Goal
  <2>1. snapshot.id = b /\ barrier' = NoBarrier /\ released' = released
    BY <1>4 DEF RestartServer, Restart
  <2>2. tx'[b].step = "done" /\ tx'[b].kind = "compaction"
    BY <1>0, <1>4, <2>1, RestartEnds
  <2>3. barrier'.id # b
    BY <2>1, CoordinatorConstants DEF CoordinatorConstants, NoBarrier, BarrierIds
  <2>4. released[b] # "aborted"
    <3>1. CASE tx[b].step = "committed"
      <4>1. barrier.id = b
        BY <1>0, <2>1, <3>1, UnderWayIsCommitting DEF WholeInv
      <4> QED  BY <4>1 DEF BaseInv, IInv, Core, Ledger
    <3> QED  BY <1>0, <2>1, <3>1
  <2> QED  BY <2>1, <2>2, <2>3, <2>4
<1>5. ASSUME UNCHANGED vars PROVE Goal
  BY <1>0, <1>5 DEF vars, documentVars, coordinatorVars
<1> HIDE DEF Goal
<1>6. Goal
  BY <1>1, <1>2, <1>3, <1>4, <1>5, StepsOfTheServer
<1> QED  BY <1>6 DEF Goal

\* Nothing is claimed, and the initial snapshot is nobody's, at the start.
LEMMA InitEstablishesWholeInv ==
    Init => WholeInv
BY CoordinatorConstants
DEF CoordinatorConstants, Init, DocumentInit, WholeInv, CompactionKeepsBarrier, LeavesNoTrace,
    NoTx, InitialSnapshot, BarrierIds

\* The invariant of compactions.
THEOREM WholeInvariance == Spec => [](BaseInv /\ WholeInv)
<1>1. BaseInv /\ WholeInv /\ [Next]_vars => WholeInv'
  BY NextPreservesKeepsBarrier, NextPreservesLeavesNoTrace DEF WholeInv
<1> QED  BY <1>1, BaseInvariance, InitEstablishesWholeInv, PTL DEF Spec

\* A compaction keeps its barrier to the end, and one that was announced as
\* aborted has changed nothing, as long as no answer to COMMIT gets lost.
THEOREM CompactionsHold == Spec => [](~CommitAckLoss => CompactionIsWhole)
<1>1. BaseInv /\ WholeInv => (~CommitAckLoss => CompactionIsWhole)
  <2> SUFFICES ASSUME BaseInv, WholeInv, ~CommitAckLoss PROVE CompactionIsWhole
    OBVIOUS
  <2>1. ASSUME NEW b \in BarrierIds, released[b] = "aborted", snapshot.id = b PROVE FALSE
    <3>1. tx[b].kind = "compaction" /\ tx[b].step = "committed"
      BY <2>1 DEF WholeInv, LeavesNoTrace
    <3>2. barrier.id = b
      BY <3>1, UnderWayIsCommitting DEF WholeInv
    <3> QED  BY <2>1, <3>2 DEF BaseInv, IInv, Core, Ledger
  <2> QED  BY <2>1 DEF WholeInv, CompactionIsWhole, AbortedCompactionChangesNothing
<1> QED  BY <1>1, WholeInvariance, PTL

-----------------------------------------------------------------------------
(* The outcome that clients are told *)

\* A step other than a commit leaves the status and the active snapshot alone,
\* except that an open Meeting may move between its open statuses.
LEMMA OnlyCommitsCount ==
    ASSUME BaseInv, NEW b \in BarrierIds, TxStep(b), ~Commit(b)
    PROVE  /\ UNCHANGED <<status, snapshot>>
           /\ tx'[b].step # "committed"
           /\ tx'[b].step = "done" \/ UNCHANGED coordinatorVars
<1>1. PICK s \in TxSteps \ {"committed"} : GoTo(b, s) /\ (s = "done" \/ UNCHANGED coordinatorVars)
  BY DEF TxStep, LockCompaction, PersistCompaction, EnterCompletion, LockCompletion,
         PersistCompletion, ConfirmClaim, FailTx, FinishTx, AbandonTx, TxSteps
<1>2. UNCHANGED <<status, snapshot>>
  BY DEF TxStep, LockCompaction, PersistCompaction, EnterCompletion, LockCompletion,
         PersistCompletion, ConfirmClaim, FailTx, FinishTx, AbandonTx, LockMeeting, Rollback,
         documentVars
<1> QED  BY <1>1, <1>2, GoToMoves

\* "completed" and "compacted" are only said of what has committed.
LEMMA NextPreservesTruthInv ==
    BaseInv /\ WholeInv /\ TruthInv /\ [Next]_vars => TruthInv'
<1> SUFFICES ASSUME BaseInv, WholeInv, TruthInv, [Next]_vars PROVE TruthInv'
  OBVIOUS
<1>0. /\ snapshot.id <= issued /\ issued \in Nat /\ snapshot.id \in Nat
      /\ released \in [BarrierIds -> Outcomes]
      /\ \A b \in BarrierIds :
            /\ b \in Nat \ {0}
            /\ tx[b].step = "committed"
               => IF tx[b].kind = "completion" THEN status = "completed" ELSE snapshot.id >= b
            /\ released[b] = "completed" => status = "completed"
            /\ released[b] = "compacted" => snapshot.id >= b
            /\ tx[b].step # "none" => b <= issued
            /\ b > issued => released[b] = "none"
  <2>1. issued \in Nat /\ released \in [BarrierIds -> Outcomes]
    BY CoordinatorConstants DEF CoordinatorConstants, BaseInv, IInv, Core, CoreTypeOK
  <2>2. snapshot.id \in Nat
    <3>1. snapshot.id \in SnapshotIds
      BY DEF BaseInv, LogInv, DocumentTypeOK, Snapshot
    <3>2. SnapshotIds \subseteq Nat
      BY DocumentConstants DEF DocumentConstants, SnapshotIds, InitialSnapshot
    <3> QED  BY <3>1, <3>2
  <2>3. BarrierIds \subseteq Nat \ {0}
    BY CoordinatorConstants DEF CoordinatorConstants, BarrierIds
  <2>4. \A b \in BarrierIds : tx[b].step # "none" => b <= issued
    BY DEF BaseInv, ClaimedOnce, Steps
  <2>5. \A b \in BarrierIds : b > issued => released[b] = "none"
    BY DEF BaseInv, IInv, Core, Ledger
  <2>6. /\ snapshot.id <= issued
        /\ \A b \in BarrierIds :
              /\ tx[b].step = "committed"
                 => IF tx[b].kind = "completion" THEN status = "completed" ELSE snapshot.id >= b
              /\ released[b] = "completed" => status = "completed"
              /\ released[b] = "compacted" => snapshot.id >= b
    BY DEF TruthInv, CommittedIsDone, OutcomeIsTrue, Steps
  <2> QED  BY <2>1, <2>2, <2>3, <2>4, <2>5, <2>6
<1> DEFINE Goal == /\ snapshot'.id <= issued'
                   /\ \A b \in BarrierIds :
                         /\ tx'[b].step = "committed"
                            => IF tx'[b].kind = "completion" THEN status' = "completed"
                               ELSE snapshot'.id >= b
                         /\ released'[b] = "completed" => status' = "completed"
                         /\ released'[b] = "compacted" => snapshot'.id >= b
<1>1. ASSUME PlainStep PROVE Goal
  <2>1. tx' = tx /\ snapshot' = snapshot /\ (status = "completed" => status' = "completed")
    BY <1>1 DEF PlainStep, DocumentWrite, AppendUpdate, UpdateMeeting, documentVars
  <2>2. \A b \in BarrierIds : released'[b] \in {released[b], "aborted"}
    BY <1>1, PlainMoves, MovesKeepOutcomes
  <2>3. issued' \in Nat /\ issued <= issued'
    BY <1>1, <2>1, PlainMoves, MovesKeepClaims
  <2> QED  BY <1>0, <2>1, <2>2, <2>3
<1>2. ASSUME NEW u \in Users, SubmitCompaction(u) \/ SubmitCompletion(u) PROVE Goal
  <2>1. /\ barrier.id \in BarrierIds
        /\ tx' = [tx EXCEPT ![barrier.id] = [kind |-> barrier.intention, step |-> "claimed",
                                             sequence |-> barrier.serverSequence]]
        /\ UNCHANGED <<issued, released, documentVars>>
    BY <1>2, SubmitClaims
  <2>2. tx'[barrier.id].step = "claimed" /\ \A a \in BarrierIds \ {barrier.id} : tx'[a] = tx[a]
    BY <2>1 DEF BaseInv, RelayTypeOK
  <2> QED  BY <1>0, <2>1, <2>2 DEF documentVars
<1>3. ASSUME NEW a \in BarrierIds, TxStep(a) PROVE Goal
  <2>1. \A x \in BarrierIds \ {a} : tx'[x] = tx[x]
    BY <1>3, TxStepMoves DEF BaseInv, RelayTypeOK
  <2>2. CASE Commit(a)
    <3>1. PICK s : GoTo(a, s)
      BY <2>2 DEF Commit
    <3>2. tx'[a].kind = tx[a].kind /\ tx[a].step = "committing"
          /\ tx[a].kind \in Intentions /\ UNCHANGED <<issued, released>>
      BY <2>2, <3>1, GoToMoves DEF Commit, Steps, coordinatorVars, BaseInv, ClaimedOnce
    <3>3. CASE tx[a].kind = "completion"
      <4>1. status' = "completed" /\ UNCHANGED snapshot
        BY <2>2, <3>3 DEF Commit, CommitCompletion
      <4> QED  BY <1>0, <2>1, <3>2, <3>3, <4>1
    <3>4. CASE tx[a].kind = "compaction"
      <4>1. snapshot'.id = a /\ UNCHANGED status
        BY <2>2, <3>4 DEF Commit, CommitCompaction
      <4>2. barrier.id = a
        BY <3>2, <3>4, UnderWayIsCommitting DEF WholeInv
      <4>3. a = issued
        BY <1>0, <4>2 DEF BaseInv, CurrentIsLast
      <4> QED  BY <1>0, <2>1, <3>2, <3>4, <4>1, <4>3
    <3> QED  BY <3>2, <3>3, <3>4 DEF Intentions
  <2>3. CASE ~Commit(a)
    <3>1. /\ UNCHANGED <<status, snapshot>> /\ tx'[a].step # "committed"
          /\ tx'[a].step = "done" \/ UNCHANGED coordinatorVars
      BY <1>3, <2>3, OnlyCommitsCount
    <3>2. UNCHANGED coordinatorVars \/ Complete(a) \/ Fail(a)
      BY <1>3, TxStepMoves
    <3>3. UNCHANGED issued /\ \A x \in BarrierIds \ {a} : released'[x] = released[x]
      BY <3>2, FinishForgets DEF coordinatorVars
    <3>4. /\ released'[a] = "completed" => status = "completed"
          /\ released'[a] = "compacted" => snapshot.id >= a
      <4>1. CASE UNCHANGED released
        BY <1>0, <4>1
      <4>2. CASE AbandonTx(a)
        BY <1>0, <4>2 DEF AbandonTx, Fail, Finish, Release, KeepBarrier
      <4>3. CASE FinishTx(a) /\ barrier.id = a
        <5>1. tx[a].step = "committed" /\ barrier.intention = tx[a].kind
              /\ tx[a].kind \in Intentions
          BY <4>3 DEF FinishTx, BaseInv, ClaimedOnce, Steps
        <5>2. released'[a] = IF barrier.intention = "completion" THEN "completed" ELSE "compacted"
          BY <1>0, <4>3 DEF FinishTx, Complete, Finish, Release
        <5> QED  BY <1>0, <5>1, <5>2 DEF Intentions
      <4>4. CASE FinishTx(a) /\ barrier.id # a
        BY <1>0, <4>4 DEF FinishTx, Complete, Finish, KeepBarrier
      <4> QED
        BY <1>3, <2>3, <4>1, <4>2, <4>3, <4>4
        DEF TxStep, LockCompaction, PersistCompaction, EnterCompletion, LockCompletion,
            PersistCompletion, ConfirmClaim, FailTx, coordinatorVars
    <3> QED  BY <1>0, <2>1, <3>1, <3>3, <3>4
  <2> QED  BY <2>2, <2>3
<1>4. ASSUME RestartServer PROVE Goal
  <2>1. UNCHANGED <<status, snapshot, issued, released>>
    BY <1>4 DEF RestartServer, Restart
  <2>2. \A b \in BarrierIds : tx'[b].step # "committed"
    BY <1>4, RestartEnds
  <2> QED  BY <1>0, <2>1, <2>2
<1>5. ASSUME UNCHANGED vars PROVE Goal
  BY <1>0, <1>5 DEF vars, coordinatorVars, documentVars
<1> HIDE DEF Goal
<1>6. Goal
  BY <1>1, <1>2, <1>3, <1>4, <1>5, StepsOfTheServer
<1> QED  BY <1>6 DEF Goal, TruthInv, CommittedIsDone, OutcomeIsTrue, Steps

\* Nothing has been announced at the start.
LEMMA InitEstablishesTruthInv ==
    Init => TruthInv
BY DEF Init, CoordinatorInit, DocumentInit, TruthInv, CommittedIsDone, OutcomeIsTrue, Steps,
       NoTx, InitialSnapshot

-----------------------------------------------------------------------------
(* The counters of writers *)

Writing == {c \in Connections : handler[c] \in {"writing", "written"}}
WritingExternally == {w \in ExternalRequests : external[w] \in {"writing", "written"}}

\* A handler that begins adds one to its set, one that ends takes one away.
LEMMA SetsOfWriters ==
    ASSUME BaseInv
    PROVE  /\ \A c \in Connections, s \in HandlerStates :
                 handler' = [handler EXCEPT ![c] = s]
                 => Writing' = IF s \in {"writing", "written"} THEN Writing \cup {c}
                               ELSE Writing \ {c}
           /\ \A w \in ExternalRequests, s \in ExternalStates :
                 external' = [external EXCEPT ![w] = s]
                 => WritingExternally' = IF s \in {"writing", "written"}
                                         THEN WritingExternally \cup {w}
                                         ELSE WritingExternally \ {w}
           /\ handler' = handler => Writing' = Writing
           /\ external' = external => WritingExternally' = WritingExternally
           /\ IsFiniteSet(Writing) /\ IsFiniteSet(WritingExternally)
<1>1. /\ handler \in [Connections -> HandlerStates]
      /\ external \in [ExternalRequests -> ExternalStates]
  BY DEF BaseInv, RelayTypeOK
<1>2. Writing \subseteq Connections /\ WritingExternally \subseteq ExternalRequests
  BY DEF Writing, WritingExternally
<1>3. IsFiniteSet(Writing) /\ IsFiniteSet(WritingExternally)
  BY <1>2, FS_Subset, CoordinatorConstants, ServerConstants
  DEF CoordinatorConstants, ServerConstants
<1>4. ASSUME NEW c \in Connections, NEW s \in HandlerStates, handler' = [handler EXCEPT ![c] = s]
      PROVE  Writing' = IF s \in {"writing", "written"} THEN Writing \cup {c} ELSE Writing \ {c}
  BY <1>1, <1>4 DEF Writing
<1>5. ASSUME NEW w \in ExternalRequests, NEW s \in ExternalStates,
             external' = [external EXCEPT ![w] = s]
      PROVE  WritingExternally' = IF s \in {"writing", "written"} THEN WritingExternally \cup {w}
                                  ELSE WritingExternally \ {w}
  BY <1>1, <1>5 DEF WritingExternally
<1> QED  BY <1>3, <1>4, <1>5 DEF Writing, WritingExternally

\* What a step does to the two counters and the two kinds of handlers.
LEMMA WritersOfNext ==
    ASSUME BaseInv, [Next]_vars
    PROVE  \/ UNCHANGED <<handler, external, collaborationWriters, externalWriters>>
           \/ \E c \in Connections : UpdateStep(c)
           \/ \E w \in ExternalRequests : ExternalStep(w)
           \/ RestartServer
<1> DEFINE Still == UNCHANGED <<handler, external, collaborationWriters, externalWriters>>
<1>1. ASSUME NEW c \in Connections, SocketStep(c) PROVE Still
  BY <1>1 DEF SocketStep, ConsumeTicket, JoinRoom, CloseUnjoined, StartClosing, Reauthorize,
              RemoveSocket, Join, Disconnected, coordinatorVars
<1>2. ASSUME NEW c \in Connections, FrameStep(c) PROVE Still
  BY <1>2 DEF FrameStep, RequestCompaction, OpenRequested, DrainCompaction, ReportFailure,
              DrainCompletion, Confirm, OpenCompaction, Acknowledge, Abort, CompletionDrained,
              ConfirmCompletion, coordinatorVars, relayVars
<1>3. ASSUME NEW u \in Users, RequestStep(u) PROVE Still
  BY <1>3 DEF RequestStep, SubmitCompaction, CheckCompletion, PrepareCompletion, SubmitCompletion,
              Cancel, Claim, BeginCompletion, ClaimCompletionSubmission, CancelCompletion,
              coordinatorVars, relayVars
<1>4. ASSUME ReadStep PROVE Still
  BY <1>4 DEF ReadStep, ReadDrained, ResumeDrained, ReadCapture, ResumeCapture, FailCapture,
              Ready, CaptureReads, CaptureResumes, CaptureFails, coordinatorVars, relayVars
<1>5. ASSUME NEW b \in BarrierIds, TxStep(b) PROVE Still
  BY <1>5, TxStepMoves DEF Complete, Fail, Finish, coordinatorVars
<1>6. ASSUME BarrierTimeout \/ ChangeStatus \/ CloseCompleted \/ UNCHANGED vars PROVE Still
  BY <1>6 DEF BarrierTimeout, ChangeStatus, CloseCompleted, Timeout, vars, coordinatorVars, relayVars
<1> HIDE DEF Still
<1>7. Still \/ (\E c \in Connections : UpdateStep(c))
      \/ (\E w \in ExternalRequests : ExternalStep(w)) \/ RestartServer
  BY <1>1, <1>2, <1>3, <1>4, <1>5, <1>6 DEF Next
<1> QED  BY <1>7 DEF Still

\* No path leaks a writer or ends one twice.
LEMMA NextPreservesCounts ==
    BaseInv /\ WritersAreCounted /\ [Next]_vars => WritersAreCounted'
<1> SUFFICES ASSUME BaseInv, WritersAreCounted, [Next]_vars PROVE WritersAreCounted'
  OBVIOUS
<1>0. /\ collaborationWriters = Cardinality(Writing)
      /\ externalWriters = Cardinality(WritingExternally)
      /\ collaborationWriters \in Nat /\ externalWriters \in Nat
      /\ handler \in [Connections -> HandlerStates]
      /\ external \in [ExternalRequests -> ExternalStates]
  BY CoordinatorConstants
  DEF CoordinatorConstants, WritersAreCounted, Writing, WritingExternally, BaseInv, IInv,
      RestTypeOK, RelayTypeOK
<1>1. ASSUME collaborationWriters' = Cardinality(Writing'),
             externalWriters' = Cardinality(WritingExternally')
      PROVE  WritersAreCounted'
  BY <1>1 DEF WritersAreCounted, Writing, WritingExternally
<1>2. CASE UNCHANGED <<handler, external, collaborationWriters, externalWriters>>
  BY <1>0, <1>1, <1>2, SetsOfWriters
<1>3. ASSUME NEW c \in Connections, UpdateStep(c) PROVE WritersAreCounted'
  <2>1. UNCHANGED external
    BY <1>3 DEF UpdateStep, ReceiveUpdate, StartUpdate, RefuseUpdate, WriteUpdate, EndUpdate
  <2>2. WritingExternally' = WritingExternally
    BY <2>1, SetsOfWriters
  <2>3. CASE ReceiveUpdate(c) \/ RefuseUpdate(c)
    <3>1. /\ handler[c] \in {"idle", "checked"}
          /\ \E s \in {"idle", "checked"} : handler' = [handler EXCEPT ![c] = s]
          /\ UNCHANGED <<collaborationWriters, externalWriters>>
      BY <2>3 DEF ReceiveUpdate, RefuseUpdate, PrepareUpdate, coordinatorVars
    <3>2. c \notin Writing /\ Writing' = Writing \ {c}
      BY <3>1, SetsOfWriters DEF Writing, HandlerStates
    <3>3. Writing' = Writing
      BY <3>2
    <3> QED  BY <1>0, <1>1, <2>2, <3>1, <3>3
  <2>4. CASE StartUpdate(c)
    <3>1. /\ handler[c] = "checked" /\ handler' = [handler EXCEPT ![c] = "writing"]
          /\ collaborationWriters' = collaborationWriters + 1 /\ UNCHANGED externalWriters
      BY <2>4 DEF StartUpdate, AdmitUpdate
    <3>2. c \notin Writing /\ Writing' = Writing \cup {c} /\ IsFiniteSet(Writing)
      BY <3>1, SetsOfWriters DEF Writing, HandlerStates
    <3>3. Cardinality(Writing \cup {c}) = Cardinality(Writing) + 1
      BY <3>2, FS_AddElement
    <3> QED  BY <1>0, <1>1, <2>2, <3>1, <3>2, <3>3
  <2>5. CASE WriteUpdate(c)
    <3>1. /\ handler[c] = "writing" /\ handler' = [handler EXCEPT ![c] = "written"]
          /\ UNCHANGED <<collaborationWriters, externalWriters>>
      BY <2>5 DEF WriteUpdate, coordinatorVars
    <3>2. c \in Writing /\ Writing' = Writing \cup {c}
      BY <3>1, SetsOfWriters DEF Writing, HandlerStates
    <3>3. Writing' = Writing
      BY <3>2
    <3> QED  BY <1>0, <1>1, <2>2, <3>1, <3>3
  <2>6. CASE EndUpdate(c)
    <3>1. /\ handler[c] = "written" /\ handler' = [handler EXCEPT ![c] = "idle"]
          /\ collaborationWriters' = IF collaborationWriters <= 1 THEN 0
                                     ELSE collaborationWriters - 1
          /\ UNCHANGED externalWriters
      BY <2>6 DEF EndUpdate, EndCollaborationUpdate
    <3>2. c \in Writing /\ Writing' = Writing \ {c} /\ IsFiniteSet(Writing)
      BY <3>1, SetsOfWriters DEF Writing, HandlerStates
    <3>3. Cardinality(Writing \ {c}) = Cardinality(Writing) - 1 /\ Cardinality(Writing \ {c}) \in Nat
      BY <3>2, FS_RemoveElement, FS_CardinalityType
    <3>4. collaborationWriters' = collaborationWriters - 1
      BY <1>0, <3>1, <3>3
    <3> QED  BY <1>0, <1>1, <2>2, <3>1, <3>2, <3>3, <3>4
  <2> QED  BY <1>3, <2>3, <2>4, <2>5, <2>6 DEF UpdateStep
<1>4. ASSUME NEW w \in ExternalRequests, ExternalStep(w) PROVE WritersAreCounted'
  <2>1. UNCHANGED handler
    BY <1>4 DEF ExternalStep, BeginExternal, WriteExternal, EndExternal
  <2>2. Writing' = Writing
    BY <2>1, SetsOfWriters
  <2>3. CASE BeginExternal(w)
    <3>1. /\ external[w] = "idle" /\ external' = [external EXCEPT ![w] = "writing"]
          /\ externalWriters' = externalWriters + 1 /\ UNCHANGED collaborationWriters
      BY <2>3 DEF BeginExternal, BeginExternalUpdate
    <3>2. w \notin WritingExternally /\ WritingExternally' = WritingExternally \cup {w}
          /\ IsFiniteSet(WritingExternally)
      BY <3>1, SetsOfWriters DEF WritingExternally, ExternalStates
    <3>3. Cardinality(WritingExternally \cup {w}) = Cardinality(WritingExternally) + 1
      BY <3>2, FS_AddElement
    <3> QED  BY <1>0, <1>1, <2>2, <3>1, <3>2, <3>3
  <2>4. CASE WriteExternal(w)
    <3>1. /\ external[w] = "writing" /\ external' = [external EXCEPT ![w] = "written"]
          /\ UNCHANGED <<collaborationWriters, externalWriters>>
      BY <2>4 DEF WriteExternal, coordinatorVars
    <3>2. w \in WritingExternally /\ WritingExternally' = WritingExternally \cup {w}
      BY <3>1, SetsOfWriters DEF WritingExternally, ExternalStates
    <3>3. WritingExternally' = WritingExternally
      BY <3>2
    <3> QED  BY <1>0, <1>1, <2>2, <3>1, <3>3
  <2>5. CASE EndExternal(w)
    <3>1. /\ external[w] = "written" /\ external' = [external EXCEPT ![w] = "idle"]
          /\ externalWriters' = IF externalWriters <= 1 THEN 0 ELSE externalWriters - 1
          /\ UNCHANGED collaborationWriters
      BY <2>5 DEF EndExternal, EndExternalUpdate
    <3>2. w \in WritingExternally /\ WritingExternally' = WritingExternally \ {w}
          /\ IsFiniteSet(WritingExternally)
      BY <3>1, SetsOfWriters DEF WritingExternally, ExternalStates
    <3>3. /\ Cardinality(WritingExternally \ {w}) = Cardinality(WritingExternally) - 1
          /\ Cardinality(WritingExternally \ {w}) \in Nat
      BY <3>2, FS_RemoveElement, FS_CardinalityType
    <3>4. externalWriters' = externalWriters - 1
      BY <1>0, <3>1, <3>3
    <3> QED  BY <1>0, <1>1, <2>2, <3>1, <3>2, <3>3, <3>4
  <2> QED  BY <1>4, <2>3, <2>4, <2>5 DEF ExternalStep
<1>5. ASSUME RestartServer PROVE WritersAreCounted'
  <2>1. /\ handler' = [c \in Connections |-> "idle"]
        /\ external' = [w \in ExternalRequests |-> "idle"]
        /\ collaborationWriters' = 0 /\ externalWriters' = 0
    BY <1>5 DEF RestartServer, Restart
  <2>2. Writing' = {} /\ WritingExternally' = {}
    BY <2>1 DEF Writing, WritingExternally
  <2> QED  BY <1>1, <2>1, <2>2, FS_EmptySet
<1> QED  BY <1>2, <1>3, <1>4, <1>5, WritersOfNext

\* Nobody writes at the start.
LEMMA InitEstablishesCounts ==
    Init => WritersAreCounted
<1> SUFFICES ASSUME Init PROVE WritersAreCounted
  OBVIOUS
<1>1. /\ {c \in Connections : handler[c] \in {"writing", "written"}} = {}
      /\ {w \in ExternalRequests : external[w] \in {"writing", "written"}} = {}
      /\ collaborationWriters = 0 /\ externalWriters = 0
  BY DEF Init, CoordinatorInit
<1> QED  BY <1>1, FS_EmptySet DEF WritersAreCounted

\* What the coordinator announces is true and what it counts is what is under
\* way, whatever fails, expires, disconnects or restarts.
THEOREM CoordinatorTruthHolds == Spec => []CoordinatorIsTruthful
<1>1. BaseInv /\ WholeInv /\ TruthInv /\ WritersAreCounted => CoordinatorIsTruthful
  BY DEF TruthInv, CoordinatorIsTruthful
<1> QED
  BY <1>1, WholeInvariance, InitEstablishesTruthInv, NextPreservesTruthInv,
     InitEstablishesCounts, NextPreservesCounts, PTL
  DEF Spec
=============================================================================
