-------------------- MODULE CoordinatorAndDocumentProofs --------------------
(***************************************************************************)
(* The safety properties of the two parts that the server and the client   *)
(* are built from.                                                         *)
(*                                                                         *)
(* CompactionCoordinator, for every number of connections, users, barriers *)
(* and writers: the state that matters is the core <<barrier, issued,      *)
(* waiting, released>>.  Most actions change it in one of a few ways: they *)
(* keep it, release the barrier, or store a changed barrier record.  The   *)
(* lemmas show that each of these ways preserves the core invariant; the   *)
(* invariance proof then goes through the actions one by one.              *)
(*                                                                         *)
(* MeetingDocument: the stored document is a log for every number of       *)
(* epochs, transactions and accepted updates, in whatever order the write  *)
(* operations of meeting-document.service.ts are called.  LogIsSound is    *)
(* not inductive as it stands: it says nothing of a snapshot that claims   *)
(* to cover more than was accepted, or of clocks below the covered ones.   *)
(* LogInv adds both.                                                       *)
(***************************************************************************)
EXTENDS CompactionCoordinator, MeetingDocument, FiniteSetTheorems, TLAPS

\* A barrier record that can be stored: typed, with its id drawn if it is open,
\* only participants among the drained and the confirmed, a drain round that is
\* complete once it is left, a confirmation round that is complete once a
\* completion is frozen.
GoodBarrier(b) ==
    /\ b \in Barrier
    /\ IF b.phase = "none" THEN b = NoBarrier ELSE b.id \in BarrierIds
    /\ b.drained \subseteq b.participants
    /\ b.confirmed \subseteq b.participants
    /\ (b.phase \in {"confirming", "ready", "finalizing"}
          \/ (b.phase = "committing" /\ b.intention = "completion"))
       => b.drained = b.participants
    /\ (b.intention = "completion" /\ Frozen(b))
       => b.confirmed = b.participants /\ b.serverSequence # NoSequence

\* Ids are drawn in order; a barrier that is not drawn yet, and the current one,
\* have no outcome.
Ledger ==
    /\ barrier.id <= issued
    /\ \A b \in BarrierIds : (b > issued \/ b = barrier.id) => released[b] = "none"

CoreTypeOK ==
    /\ issued \in 0..MaxBarriers
    /\ waiting \in SUBSET BarrierIds
    /\ released \in [BarrierIds -> Outcomes]

Core ==
    /\ CoreTypeOK
    /\ GoodBarrier(barrier)
    /\ Ledger
    /\ UnsettledPrepareHasBarrier

RestTypeOK ==
    /\ connections \in SUBSET Connections
    /\ collaborationWriters \in 0..MaxWriters
    /\ externalWriters \in 0..MaxWriters
    /\ captures \in SUBSET Capture

IInv == Core /\ RestTypeOK /\ BarrierExcludesExternalWriters

-----------------------------------------------------------------------------
(* The code compares the sizes of the sets; what it gets is their equality. *)

\* Two finite sets, one within the other and of the same size, are the same.
LEMMA SizesDecide ==
    ASSUME NEW P \in SUBSET Connections, NEW D \in SUBSET P,
           Cardinality(D) = Cardinality(P)
    PROVE  D = P
<1>1. IsFiniteSet(P)
  BY FS_Subset, CoordinatorConstants
<1> QED  BY <1>1, FS_Subset

\* `drained.size === participants.size` is true exactly when everybody drained.
LEMMA AllDrainedMeansEqual ==
    ASSUME NEW b, GoodBarrier(b), AllDrained(b)
    PROVE  b.drained = b.participants
<1>1. b.participants \in SUBSET Connections /\ b.drained \in SUBSET b.participants
  BY DEF GoodBarrier, Barrier
<1> QED  BY <1>1, SizesDecide DEF AllDrained

\* The same of `confirmed.size`: claimCompletion counts, and the count is enough.
LEMMA AllConfirmedMeansEqual ==
    ASSUME NEW b, GoodBarrier(b), AllConfirmed(b)
    PROVE  b.confirmed = b.participants
<1>1. b.participants \in SUBSET Connections /\ b.confirmed \in SUBSET b.participants
  BY DEF GoodBarrier, Barrier
<1> QED  BY <1>1, SizesDecide DEF AllConfirmed

\* Having no barrier satisfies the invariant of barriers.
LEMMA NoBarrierIsGood == GoodBarrier(NoBarrier)
  BY DEF GoodBarrier, NoBarrier, Barrier, Intentions, Phases, Frozen, NoSequence

-----------------------------------------------------------------------------
(* The ways the core changes *)

\* A method that leaves the barrier and its request alone keeps the core.
LEMMA KeepPreservesCore ==
    ASSUME Core, KeepBarrier, UNCHANGED issued
    PROVE  Core'
BY DEF Core, KeepBarrier, CoreTypeOK, GoodBarrier, Ledger, UnsettledPrepareHasBarrier,
       Frozen, NoBarrier

\* Releasing a barrier keeps the core if no request still waits for it, or if
\* the release rejects that request.
LEMMA ReleasePreservesCore ==
    ASSUME Core, NEW o \in Outcomes, Release(o), UNCHANGED issued,
           o = "aborted" \/ barrier.id \notin waiting
    PROVE  Core' /\ ~Open'
<1> USE DEF Core, Release
<1>1. CoreTypeOK'
  BY DEF CoreTypeOK
<1>2. GoodBarrier(barrier)'
  BY NoBarrierIsGood DEF GoodBarrier, Frozen
<1>3. Ledger'
  BY CoordinatorConstants DEF CoordinatorConstants, Ledger, NoBarrier, CoreTypeOK, BarrierIds, GoodBarrier, Barrier
<1>4. UnsettledPrepareHasBarrier'
  BY DEF UnsettledPrepareHasBarrier
<1>5. ~Open'
  BY DEF Open, NoBarrier
<1> QED  BY <1>1, <1>2, <1>3, <1>4, <1>5

\* Storing a changed record of the current barrier keeps the core if the record
\* is good and the barrier is still one that its waiting request can wait for.
LEMMA StorePreservesCore ==
    ASSUME Core, GoodBarrier(barrier'), barrier'.id = barrier.id,
           UNCHANGED <<issued, released>>, waiting' \subseteq waiting,
           waiting' # {} => barrier'.intention = "completion" /\ ~Frozen(barrier')
    PROVE  Core'
<1>1. CoreTypeOK'
  BY DEF Core, CoreTypeOK
<1>2. Ledger'
  BY DEF Core, Ledger
<1>3. UnsettledPrepareHasBarrier'
  BY DEF Core, UnsettledPrepareHasBarrier, Frozen
<1>4. GoodBarrier(barrier)'
  BY DEF GoodBarrier, Frozen, NoBarrier
<1> QED  BY <1>1, <1>2, <1>3, <1>4 DEF Core

\* A barrier is drawn while none is open: nobody waits, and its id is new.
LEMMA DrawPreservesCore ==
    ASSUME Core, ~Open, issued < MaxBarriers, issued' = issued + 1, UNCHANGED released,
           GoodBarrier(barrier'), barrier'.id = issued + 1,
           waiting' \subseteq waiting \cup {issued + 1},
           waiting' # {} => barrier'.intention = "completion" /\ ~Frozen(barrier')
    PROVE  Core'
<1>1. barrier.id = 0 /\ waiting = {}
  BY CoordinatorConstants DEF CoordinatorConstants, Core, GoodBarrier, Open, NoBarrier,
                              UnsettledPrepareHasBarrier, CoreTypeOK, BarrierIds
<1>2. issued \in Nat /\ MaxBarriers \in Nat /\ issued + 1 \in BarrierIds
  BY CoordinatorConstants DEF CoordinatorConstants, Core, CoreTypeOK, BarrierIds
<1>3. CoreTypeOK'
  BY <1>1, <1>2 DEF Core, CoreTypeOK, BarrierIds
<1>4. Ledger'
  BY <1>2 DEF Core, Ledger, BarrierIds
<1>5. UnsettledPrepareHasBarrier'
  BY <1>1 DEF UnsettledPrepareHasBarrier, Frozen
<1>6. GoodBarrier(barrier)'
  BY DEF GoodBarrier, Frozen, NoBarrier
<1> QED  BY <1>3, <1>4, <1>5, <1>6 DEF Core

-----------------------------------------------------------------------------
(* The barrier records that the methods store *)

\* open stores a barrier that satisfies the invariant.
LEMMA DrawnIsGood ==
    ASSUME Core, ~Open, issued < MaxBarriers, NEW i \in Intentions, NEW u \in Users,
           NEW q \in Connections \cup {"nobody"}, NEW P \in SUBSET Connections
    PROVE  GoodBarrier(NewBarrier(i, u, q, P)) /\ issued + 1 \in BarrierIds
<1>1. issued + 1 \in BarrierIds
  BY CoordinatorConstants DEF CoordinatorConstants, Core, CoreTypeOK, BarrierIds
<1> QED
  BY <1>1 DEF GoodBarrier, NewBarrier, NoBarrier, Barrier, Phases, Frozen

\* The drained set only matters once the drain round is left.
LEMMA DrainedIsGood ==
    ASSUME Core, NEW p \in barrier.participants, barrier.phase = "draining"
    PROVE  GoodBarrier(Drained(p))
BY DEF Core, GoodBarrier, Drained, Barrier, Frozen

\* A join never leaves an incomplete round behind: it is ignored, or the round
\* starts again.
LEMMA JoinedIsGood ==
    ASSUME Core, NEW p \in Connections
    PROVE  /\ GoodBarrier(Joined(barrier, p))
           /\ Joined(barrier, p).id = barrier.id
           /\ Joined(barrier, p).intention = barrier.intention
           /\ Joined(barrier, p).phase = "none" <=> barrier.phase = "none"
           /\ Frozen(Joined(barrier, p)) => Frozen(barrier)
<1>1. CASE barrier.phase = "none" \/ (barrier.intention = "completion" /\ Frozen(barrier))
  BY <1>1 DEF Core, Joined
<1>2. CASE ~(barrier.phase = "none" \/ (barrier.intention = "completion" /\ Frozen(barrier)))
           /\ barrier.phase = "committing"
  BY <1>2 DEF Core, Joined, GoodBarrier, Barrier, Frozen
<1>3. CASE ~(barrier.phase = "none" \/ (barrier.intention = "completion" /\ Frozen(barrier)))
           /\ barrier.phase # "committing"
  BY <1>3 DEF Core, Joined, GoodBarrier, Barrier, Phases, Frozen
<1> QED  BY <1>1, <1>2, <1>3

\* captureCompletionSequence leaves draining only with everybody drained.
LEMMA StartCaptureStoresGood ==
    ASSUME NEW b, GoodBarrier(b), b.phase # "none", captures \in SUBSET Capture, StartCapture(b)
    PROVE  /\ GoodBarrier(barrier')
           /\ barrier'.id = b.id
           /\ barrier'.intention = b.intention
           /\ barrier'.phase # "none"
           /\ Frozen(barrier') => Frozen(b)
           /\ captures' \in SUBSET Capture
<1>1. CASE b.intention = "completion" /\ b.phase = "draining" /\ AllDrained(b)
  <2>1. b.drained = b.participants
    BY <1>1, AllDrainedMeansEqual
  <2>2. barrier' = [b EXCEPT !.phase = "confirming"]
    BY <1>1 DEF StartCapture
  <2>3. GoodBarrier(barrier')
    BY <1>1, <2>1, <2>2 DEF GoodBarrier, Barrier, Phases, Frozen
  <2>4. captures' \in SUBSET Capture
    BY <1>1 DEF StartCapture, Capture, GoodBarrier, Barrier
  <2> QED  BY <1>1, <2>2, <2>3, <2>4 DEF GoodBarrier, Barrier, Frozen
<1>2. CASE ~(b.intention = "completion" /\ b.phase = "draining" /\ AllDrained(b))
  BY <1>2 DEF StartCapture
<1> QED  BY <1>1, <1>2

\* claimCompletion freezes a completion only when its confirmation round is
\* complete, and then settles its request.
LEMMA ClaimCompletionPreservesCore ==
    ASSUME Core, NEW b, GoodBarrier(b), b.id = barrier.id, b.intention = barrier.intention,
           b.phase = barrier.phase, b.phase = "confirming", ClaimCompletion(b),
           UNCHANGED <<issued, released>>
    PROVE  Core' /\ barrier'.phase # "none"
<1>1. waiting \subseteq {b.id}
  BY DEF Core, UnsettledPrepareHasBarrier, CoreTypeOK
<1>2. waiting # {} => b.intention = "completion"
  BY DEF Core, UnsettledPrepareHasBarrier, CoreTypeOK
<1>3. CASE b.phase = "confirming" /\ b.serverSequence # NoSequence /\ AllConfirmed(b)
  <2>1. barrier' = [b EXCEPT !.phase = "finalizing"] /\ waiting' = {}
    BY <1>1, <1>3 DEF ClaimCompletion
  <2>2. b.confirmed = b.participants
    BY <1>3, AllConfirmedMeansEqual
  <2>3. GoodBarrier(barrier') /\ barrier'.id = barrier.id /\ barrier'.phase # "none"
    BY <1>3, <2>1, <2>2 DEF GoodBarrier, Barrier, Phases, Frozen
  <2> QED  BY <2>1, <2>3, StorePreservesCore
<1>4. CASE ~(b.phase = "confirming" /\ b.serverSequence # NoSequence /\ AllConfirmed(b))
  <2>1. barrier' = b /\ waiting' = waiting
    BY <1>4 DEF ClaimCompletion
  <2> QED  BY <1>2, <2>1, StorePreservesCore DEF Frozen
<1> QED  BY <1>3, <1>4

-----------------------------------------------------------------------------
(* abort *)

\* abort keeps the core in each of its three outcomes.
LEMMA AbortPreservesCore ==
    ASSUME Core, AbortBarrier, Open, UNCHANGED issued
    PROVE  Core'
<1>1. CASE barrier.phase = "committing"
  <2> DEFINE b == [barrier EXCEPT !.cancelled = (@ \/ barrier.intention = "completion")]
  <2>1. barrier' = b /\ UNCHANGED <<waiting, released>>
    BY <1>1 DEF AbortBarrier
  <2>2. GoodBarrier(b) /\ b.id = barrier.id
    BY <1>1 DEF Core, GoodBarrier, Barrier, Frozen
  <2>3. waiting = {}
    BY <1>1 DEF Core, UnsettledPrepareHasBarrier, Frozen
  <2> QED  BY <2>1, <2>2, <2>3, StorePreservesCore
<1>2. CASE barrier.phase # "committing"
  BY <1>2, ReleasePreservesCore DEF AbortBarrier, Outcomes
<1> QED  BY <1>1, <1>2

-----------------------------------------------------------------------------
(* The invariance proof *)

\* The coordinator starts in a state of the invariant.
LEMMA InitEstablishesIInv ==
    CoordinatorInit => IInv
<1> SUFFICES ASSUME CoordinatorInit PROVE IInv
  OBVIOUS
<1>1. Core
  BY NoBarrierIsGood, CoordinatorConstants
  DEF CoordinatorConstants, CoordinatorInit, Core, CoreTypeOK, Ledger,
      UnsettledPrepareHasBarrier, NoBarrier, Outcomes, BarrierIds
<1>2. RestTypeOK
  BY CoordinatorConstants DEF CoordinatorConstants, CoordinatorInit, RestTypeOK
<1>3. BarrierExcludesExternalWriters
  BY DEF CoordinatorInit, BarrierExcludesExternalWriters
<1> QED  BY <1>1, <1>2, <1>3 DEF IInv

\* Keeping the barrier keeps it open or closed.
LEMMA KeepKeepsOpen ==
    ASSUME KeepBarrier PROVE Open' = Open
BY DEF KeepBarrier, Open

\* abort never opens a barrier.
LEMMA AbortKeepsOpen ==
    ASSUME Core, AbortBarrier, Open' PROVE Open
BY DEF AbortBarrier, Release, Open, NoBarrier

\* Every method of the coordinator preserves the invariant.
LEMMA NextPreservesIInv ==
    IInv /\ [CoordinatorNext]_coordinatorVars => IInv'
<1> SUFFICES ASSUME IInv, [CoordinatorNext]_coordinatorVars PROVE IInv'
  OBVIOUS
<1> USE DEF IInv
<1>1. ASSUME NEW p \in Connections, NEW u \in Users, NEW P \in SUBSET Connections,
             OpenCompaction(p, u, P)
      PROVE  IInv'
  <2>1. GoodBarrier(barrier') /\ barrier'.id = issued + 1
    BY <1>1, DrawnIsGood DEF OpenCompaction, Intentions, NewBarrier, NoBarrier
  <2>2. waiting = {}
    BY <1>1, CoordinatorConstants
    DEF CoordinatorConstants, OpenCompaction, Core, GoodBarrier, Open, NoBarrier,
        UnsettledPrepareHasBarrier, CoreTypeOK, BarrierIds
  <2>3. Core'
    BY <1>1, <2>1, <2>2, DrawPreservesCore DEF OpenCompaction
  <2>4. RestTypeOK' /\ BarrierExcludesExternalWriters'
    BY <1>1 DEF OpenCompaction, RestTypeOK, BarrierExcludesExternalWriters
  <2> QED  BY <2>3, <2>4
<1>2. ASSUME NEW p \in Connections, Join(p) PROVE IInv'
  <2>1. barrier' = Joined(barrier, p) /\ UNCHANGED <<issued, released, waiting>>
    BY <1>2 DEF Join
  <2>2. waiting' # {} => barrier'.intention = "completion" /\ ~Frozen(barrier')
    BY <2>1, JoinedIsGood DEF Core, UnsettledPrepareHasBarrier, CoreTypeOK
  <2>3. Core'
    BY <2>1, <2>2, JoinedIsGood, StorePreservesCore
  <2>4. RestTypeOK'
    BY <1>2 DEF Join, RestTypeOK
  <2>5. BarrierExcludesExternalWriters'
    BY <1>2, <2>1, JoinedIsGood DEF Join, BarrierExcludesExternalWriters, Open
  <2> QED  BY <2>3, <2>4, <2>5
<1>3. ASSUME NEW id \in BarrierIds, NEW p \in Connections, Acknowledge(id, p) PROVE IInv'
  <2>1. barrier' = Drained(p) /\ UNCHANGED <<issued, released, waiting>>
        /\ p \in barrier.participants /\ barrier.phase = "draining"
    BY <1>3 DEF Acknowledge, CanAcknowledge
  <2>2. GoodBarrier(barrier')
    BY <2>1, DrainedIsGood
  <2>3. barrier'.id = barrier.id /\ barrier'.intention = barrier.intention
        /\ barrier'.phase = barrier.phase
    BY <2>1 DEF Drained, Core, GoodBarrier, Barrier
  <2>4. Core'
    BY <2>1, <2>2, <2>3, StorePreservesCore
    DEF Core, UnsettledPrepareHasBarrier, CoreTypeOK, Frozen
  <2>5. RestTypeOK' /\ BarrierExcludesExternalWriters'
    BY <1>3, <2>3 DEF Acknowledge, RestTypeOK, BarrierExcludesExternalWriters, Open
  <2> QED  BY <2>4, <2>5
<1>4. ASSUME NEW id \in BarrierIds, NEW s \in Sequences, NEW there \in BOOLEAN,
             Ready(id, s, there)
      PROVE  IInv'
  <2>1. Core' /\ (Open' => Open)
    <3>1. CASE there
      <4>1. barrier' = [barrier EXCEPT !.phase = "ready", !.serverSequence = s]
            /\ UNCHANGED <<issued, waiting, released>> /\ barrier.phase = "draining"
        BY <1>4, <3>1 DEF Ready
      <4>2. barrier.drained = barrier.participants
        BY <1>4, AllDrainedMeansEqual DEF Ready, Core
      <4>3. GoodBarrier(barrier') /\ barrier'.id = barrier.id
            /\ barrier'.intention = barrier.intention /\ ~Frozen(barrier')
        BY <4>1, <4>2 DEF Core, GoodBarrier, Barrier, Phases, Frozen
      <4> QED  BY <4>1, <4>3, StorePreservesCore
               DEF Core, UnsettledPrepareHasBarrier, CoreTypeOK, Open
    <3>2. CASE ~there
      BY <1>4, <3>2, ReleasePreservesCore DEF Ready, Outcomes
    <3> QED  BY <3>1, <3>2
  <2>2. RestTypeOK' /\ BarrierExcludesExternalWriters'
    BY <1>4, <2>1 DEF Ready, RestTypeOK, BarrierExcludesExternalWriters
  <2> QED  BY <2>1, <2>2
<1>5. ASSUME NEW u \in Users, Claim(u) PROVE IInv'
  <2>1. barrier' = [barrier EXCEPT !.phase = "committing"] /\ barrier.intention = "compaction"
        /\ UNCHANGED <<issued, waiting, released>> /\ barrier.phase = "ready"
    BY <1>5 DEF Claim
  <2>2. GoodBarrier(barrier') /\ barrier'.id = barrier.id /\ waiting = {}
    BY <2>1 DEF Core, GoodBarrier, Barrier, Phases, Frozen, UnsettledPrepareHasBarrier, CoreTypeOK
  <2>3. Core'
    BY <2>1, <2>2, StorePreservesCore
  <2>4. RestTypeOK' /\ BarrierExcludesExternalWriters'
    BY <1>5 DEF Claim, RestTypeOK, BarrierExcludesExternalWriters, Open
  <2> QED  BY <2>3, <2>4
<1>6. ASSUME NEW id \in BarrierIds, Claimed(id), NEW o \in Outcomes, Finish(id, o)
      PROVE  IInv'
  <2>1. Core' /\ (Open' => Open)
    <3>1. CASE barrier.id = id
      <4>1. barrier.id \notin waiting
        BY <1>6, <3>1 DEF Core, UnsettledPrepareHasBarrier, Claimed, Frozen
      <4> QED  BY <1>6, <3>1, <4>1, ReleasePreservesCore DEF Finish
    <3>2. CASE barrier.id # id
      BY <1>6, <3>2, KeepPreservesCore, KeepKeepsOpen DEF Finish
    <3> QED  BY <3>1, <3>2
  <2>2. RestTypeOK' /\ BarrierExcludesExternalWriters'
    BY <1>6, <2>1 DEF Finish, RestTypeOK, BarrierExcludesExternalWriters
  <2> QED  BY <2>1, <2>2
<1>7. ASSUME NEW id \in BarrierIds, Abort(id) PROVE IInv'
  <2>1. Core' /\ (Open' => Open)
    BY <1>7, AbortPreservesCore DEF Abort
  <2>2. RestTypeOK' /\ BarrierExcludesExternalWriters'
    BY <1>7, <2>1 DEF Abort, RestTypeOK, BarrierExcludesExternalWriters
  <2> QED  BY <2>1, <2>2
<1>8. ASSUME NEW p \in Connections, Disconnected(p) PROVE IInv'
  <2>1. Core' /\ (Open' => Open)
    <3>1. CASE p \in barrier.participants
      <4>1. Open
        BY <3>1 DEF Core, GoodBarrier, NoBarrier, Open
      <4> QED  BY <1>8, <3>1, <4>1, AbortPreservesCore DEF Disconnected
    <3>2. CASE p \notin barrier.participants
      BY <1>8, <3>2, KeepPreservesCore, KeepKeepsOpen DEF Disconnected
    <3> QED  BY <3>1, <3>2
  <2>2. RestTypeOK' /\ BarrierExcludesExternalWriters'
    BY <1>8, <2>1 DEF Disconnected, RestTypeOK, BarrierExcludesExternalWriters
  <2> QED  BY <2>1, <2>2
<1>9. ASSUME NEW p \in Connections, PrepareUpdate(p) PROVE IInv'
  <2>1. Core' /\ ~Open'
    BY <1>9, ReleasePreservesCore DEF PrepareUpdate, Outcomes
  <2>2. RestTypeOK' /\ BarrierExcludesExternalWriters'
    BY <1>9, <2>1 DEF PrepareUpdate, RestTypeOK, BarrierExcludesExternalWriters
  <2> QED  BY <2>1, <2>2
<1>10. ASSUME NEW p \in Connections, AdmitUpdate(p) PROVE IInv'
  <2>1. Core' /\ (Open' => Open)
    BY <1>10, ReleasePreservesCore, KeepPreservesCore, KeepKeepsOpen DEF AdmitUpdate, Outcomes
  <2>2. RestTypeOK' /\ BarrierExcludesExternalWriters'
    BY <1>10, <2>1, CoordinatorConstants
    DEF CoordinatorConstants, AdmitUpdate, RestTypeOK, BarrierExcludesExternalWriters
  <2> QED  BY <2>1, <2>2
<1>11. ASSUME EndCollaborationUpdate PROVE IInv'
  <2>1. Core'
    BY <1>11, KeepPreservesCore DEF EndCollaborationUpdate, KeepBarrier
  <2>2. RestTypeOK' /\ BarrierExcludesExternalWriters'
    BY <1>11, CoordinatorConstants
    DEF CoordinatorConstants, EndCollaborationUpdate, RestTypeOK,
        BarrierExcludesExternalWriters, Open
  <2> QED  BY <2>1, <2>2
<1>12. ASSUME BeginExternalUpdate PROVE IInv'
  <2>1. Core' /\ ~Open'
    BY <1>12, ReleasePreservesCore, KeepPreservesCore, KeepKeepsOpen
    DEF BeginExternalUpdate, Outcomes
  <2>2. RestTypeOK' /\ BarrierExcludesExternalWriters'
    BY <1>12, <2>1, CoordinatorConstants
    DEF CoordinatorConstants, BeginExternalUpdate, RestTypeOK, BarrierExcludesExternalWriters
  <2> QED  BY <2>1, <2>2
<1>13. ASSUME EndExternalUpdate PROVE IInv'
  <2>1. Core'
    BY <1>13, KeepPreservesCore DEF EndExternalUpdate, KeepBarrier
  <2>2. RestTypeOK' /\ BarrierExcludesExternalWriters'
    BY <1>13, CoordinatorConstants
    DEF CoordinatorConstants, EndExternalUpdate, RestTypeOK, BarrierExcludesExternalWriters, Open
  <2> QED  BY <2>1, <2>2
<1>14. ASSUME NEW u \in Users, BeginCompletion(u) PROVE IInv'
  <2> DEFINE b == NewBarrier("completion", u, "nobody", connections)
  <2>1. GoodBarrier(b) /\ issued + 1 \in BarrierIds
    BY <1>14, DrawnIsGood DEF BeginCompletion, RestTypeOK, Intentions
  <2>2. b.id = issued + 1 /\ b.intention = "completion" /\ b.phase = "draining"
    BY DEF NewBarrier, NoBarrier
  <2>3. StartCapture(b) /\ captures \in SUBSET Capture
    BY <1>14 DEF BeginCompletion, RestTypeOK
  <2> HIDE DEF b
  <2>4. GoodBarrier(barrier') /\ barrier'.id = issued + 1 /\ captures' \in SUBSET Capture
        /\ barrier'.intention = "completion" /\ ~Frozen(barrier')
    BY <2>1, <2>2, <2>3, StartCaptureStoresGood DEF Frozen
  <2>5. Core'
    BY <1>14, <2>4, DrawPreservesCore DEF BeginCompletion
  <2>6. RestTypeOK' /\ BarrierExcludesExternalWriters'
    BY <1>14, <2>4 DEF BeginCompletion, RestTypeOK, BarrierExcludesExternalWriters
  <2> QED  BY <2>5, <2>6
<1>15. ASSUME NEW id \in BarrierIds, NEW p \in Connections, CompletionDrained(id, p)
       PROVE  IInv'
  <2>1. /\ StartCapture(Drained(p)) /\ captures \in SUBSET Capture
        /\ p \in barrier.participants /\ barrier.phase = "draining"
        /\ UNCHANGED <<issued, waiting, released>>
    BY <1>15 DEF CompletionDrained, CanAcknowledge, RestTypeOK
  <2>2. GoodBarrier(Drained(p)) /\ Drained(p).id = barrier.id
        /\ Drained(p).intention = barrier.intention /\ Drained(p).phase = "draining"
    BY <2>1, DrainedIsGood DEF Drained, Core, GoodBarrier, Barrier
  <2>3. GoodBarrier(barrier') /\ barrier'.id = barrier.id /\ captures' \in SUBSET Capture
        /\ barrier'.intention = barrier.intention /\ ~Frozen(barrier')
    BY <2>1, <2>2, StartCaptureStoresGood DEF Frozen
  <2>4. Core'
    BY <2>1, <2>3, StorePreservesCore DEF Core, UnsettledPrepareHasBarrier, CoreTypeOK
  <2>5. RestTypeOK' /\ BarrierExcludesExternalWriters'
    BY <1>15, <2>1, <2>3
    DEF CompletionDrained, RestTypeOK, BarrierExcludesExternalWriters, Open
  <2> QED  BY <2>4, <2>5
<1>16. ASSUME NEW c \in captures, NEW s \in Sequences, CaptureReads(c, s) PROVE IInv'
  <2>1. Core'
    BY <1>16, KeepPreservesCore DEF CaptureReads, KeepBarrier
  <2>2. RestTypeOK' /\ BarrierExcludesExternalWriters'
    BY <1>16 DEF CaptureReads, RestTypeOK, Capture, BarrierExcludesExternalWriters, Open
  <2> QED  BY <2>1, <2>2
<1>17. ASSUME NEW c \in captures, CaptureResumes(c) PROVE IInv'
  <2>1. c \in Capture /\ c.sequence \in Sequences
    BY <1>17 DEF CaptureResumes, RestTypeOK, Capture
  <2>2. Core' /\ (Open' => Open)
    <3>1. CASE barrier.id # c.barrier \/ barrier.phase # "confirming"
      BY <1>17, <3>1, KeepPreservesCore, KeepKeepsOpen DEF CaptureResumes
    <3>2. CASE barrier.id = c.barrier /\ barrier.phase = "confirming" /\ collaborationWriters > 0
      BY <1>17, <3>2, ReleasePreservesCore DEF CaptureResumes, Outcomes
    <3>3. CASE barrier.id = c.barrier /\ barrier.phase = "confirming" /\ ~(collaborationWriters > 0)
      <4> DEFINE b == [barrier EXCEPT !.serverSequence = c.sequence]
      <4>1. ClaimCompletion(b) /\ UNCHANGED <<issued, released>>
        BY <1>17, <3>3 DEF CaptureResumes
      <4>2. GoodBarrier(b) /\ b.id = barrier.id /\ b.intention = barrier.intention
            /\ b.phase = barrier.phase
        BY <2>1, <3>3 DEF Core, GoodBarrier, Barrier, Frozen
      <4> HIDE DEF b
      <4> QED  BY <3>3, <4>1, <4>2, ClaimCompletionPreservesCore DEF Open
    <3> QED  BY <3>1, <3>2, <3>3
  <2>3. RestTypeOK' /\ BarrierExcludesExternalWriters'
    BY <1>17, <2>2 DEF CaptureResumes, RestTypeOK, BarrierExcludesExternalWriters
  <2> QED  BY <2>2, <2>3
<1>18. ASSUME NEW c \in captures, CaptureFails(c) PROVE IInv'
  <2>1. Core' /\ (Open' => Open)
    <3>1. CASE barrier.id = c.barrier
      <4>1. Open
        BY <3>1, CoordinatorConstants
        DEF CoordinatorConstants, RestTypeOK, Capture, BarrierIds, Core, GoodBarrier,
            NoBarrier, Open
      <4> QED  BY <1>18, <3>1, <4>1, AbortPreservesCore DEF CaptureFails
    <3>2. CASE barrier.id # c.barrier
      BY <1>18, <3>2, KeepPreservesCore, KeepKeepsOpen DEF CaptureFails
    <3> QED  BY <3>1, <3>2
  <2>2. RestTypeOK' /\ BarrierExcludesExternalWriters'
    BY <1>18, <2>1 DEF CaptureFails, RestTypeOK, BarrierExcludesExternalWriters
  <2> QED  BY <2>1, <2>2
<1>19. ASSUME NEW id \in BarrierIds, NEW p \in Connections, NEW s \in Sequences,
              ConfirmCompletion(id, p, s)
       PROVE  IInv'
  <2> DEFINE b == [barrier EXCEPT !.confirmed = @ \cup {p}]
  <2>1. /\ ClaimCompletion(b) /\ UNCHANGED <<issued, released>>
        /\ barrier.phase = "confirming" /\ p \in barrier.participants
    BY <1>19 DEF ConfirmCompletion
  <2>2. GoodBarrier(b) /\ b.id = barrier.id /\ b.intention = barrier.intention
        /\ b.phase = barrier.phase
    BY <2>1 DEF Core, GoodBarrier, Barrier, Frozen
  <2> HIDE DEF b
  <2>3. Core' /\ Open
    BY <2>1, <2>2, ClaimCompletionPreservesCore DEF Open
  <2>4. RestTypeOK' /\ BarrierExcludesExternalWriters'
    BY <1>19, <2>3 DEF ConfirmCompletion, RestTypeOK, BarrierExcludesExternalWriters
  <2> QED  BY <2>3, <2>4
<1>20. ASSUME NEW u \in Users, ClaimCompletionSubmission(u) PROVE IInv'
  <2>1. barrier' = [barrier EXCEPT !.phase = "committing"] /\ barrier.phase = "finalizing"
        /\ UNCHANGED <<issued, waiting, released>>
    BY <1>20 DEF ClaimCompletionSubmission
  <2>2. GoodBarrier(barrier') /\ barrier'.id = barrier.id /\ waiting = {}
    BY <2>1 DEF Core, GoodBarrier, Barrier, Phases, Frozen, UnsettledPrepareHasBarrier
  <2>3. Core'
    BY <2>1, <2>2, StorePreservesCore
  <2>4. RestTypeOK' /\ BarrierExcludesExternalWriters'
    BY <1>20 DEF ClaimCompletionSubmission, RestTypeOK, BarrierExcludesExternalWriters, Open
  <2> QED  BY <2>3, <2>4
<1>21. ASSUME NEW u \in Users, CancelCompletion(u) PROVE IInv'
  <2>1. Open
    BY <1>21 DEF CancelCompletion, Core, GoodBarrier, NoBarrier, Open
  <2>2. Core' /\ (Open' => Open)
    BY <1>21, <2>1, AbortPreservesCore DEF CancelCompletion
  <2>3. RestTypeOK' /\ BarrierExcludesExternalWriters'
    BY <1>21, <2>2 DEF CancelCompletion, RestTypeOK, BarrierExcludesExternalWriters
  <2> QED  BY <2>2, <2>3
<1>22. ASSUME Timeout PROVE IInv'
  <2>1. Core' /\ ~Open'
    BY <1>22, ReleasePreservesCore DEF Timeout, Outcomes
  <2>2. RestTypeOK' /\ BarrierExcludesExternalWriters'
    BY <1>22, <2>1 DEF Timeout, RestTypeOK, BarrierExcludesExternalWriters
  <2> QED  BY <2>1, <2>2
<1>23. ASSUME Restart PROVE IInv'
  <2>1. Core'
    BY <1>23, NoBarrierIsGood, CoordinatorConstants
    DEF CoordinatorConstants, Restart, Core, CoreTypeOK, Ledger, GoodBarrier, Frozen,
        NoBarrier, BarrierIds, UnsettledPrepareHasBarrier
  <2>2. RestTypeOK' /\ BarrierExcludesExternalWriters'
    BY <1>23, CoordinatorConstants
    DEF CoordinatorConstants, Restart, RestTypeOK, BarrierExcludesExternalWriters
  <2> QED  BY <2>1, <2>2
<1>24. ASSUME UNCHANGED coordinatorVars PROVE IInv'
  <2>1. Core'
    BY <1>24, KeepPreservesCore DEF coordinatorVars, KeepBarrier
  <2>2. RestTypeOK' /\ BarrierExcludesExternalWriters'
    BY <1>24 DEF coordinatorVars, RestTypeOK, BarrierExcludesExternalWriters, Open
  <2> QED  BY <2>1, <2>2
<1>25. ASSUME NEW id \in BarrierIds, Claimed(id), Complete(id) \/ Fail(id) PROVE IInv'
  BY <1>6, <1>25 DEF Complete, Fail, Outcomes
<1> HIDE DEF IInv
<1> QED
  BY <1>1, <1>2, <1>3, <1>4, <1>5, <1>7, <1>8, <1>9, <1>10, <1>11, <1>12, <1>13, <1>14,
     <1>15, <1>16, <1>17, <1>18, <1>19, <1>20, <1>21, <1>22, <1>23, <1>24, <1>25
  DEF CoordinatorNext

\* The invariant holds in every reachable state.
THEOREM Invariance == CoordinatorSpec => []IInv
BY InitEstablishesIInv, NextPreservesIInv, PTL DEF CoordinatorSpec

-----------------------------------------------------------------------------
(* What the invariant says about the code *)

\* The fields of the class always hold values of their types.
THEOREM TypeCorrect == CoordinatorSpec => []CoordinatorTypeOK
<1>1. IInv => CoordinatorTypeOK
  BY DEF IInv, Core, CoreTypeOK, GoodBarrier, RestTypeOK, CoordinatorTypeOK
<1> QED  BY <1>1, Invariance, PTL

\* A round that has left draining is a round in which everybody has drained,
\* however many clients join, drain and leave in whatever order.
THEOREM DrainedRoundHolds == CoordinatorSpec => []DrainedRound
<1>1. IInv => DrainedRound
  BY DEF IInv, Core, GoodBarrier, DrainedRound
<1> QED  BY <1>1, Invariance, PTL

\* A completion is finalized and claimed only when everybody has confirmed.
THEOREM ConfirmedRoundHolds == CoordinatorSpec => []ConfirmedRound
<1>1. IInv => ConfirmedRound
  BY DEF IInv, Core, GoodBarrier, ConfirmedRound
<1> QED  BY <1>1, Invariance, PTL

\* Both together are what a run checks: a round that has been left was complete.
THEOREM RoundsHold == CoordinatorSpec => []RoundsAreComplete
<1>1. DrainedRound /\ ConfirmedRound => RoundsAreComplete
  BY DEF RoundsAreComplete
<1> QED  BY <1>1, DrainedRoundHolds, ConfirmedRoundHolds, PTL

\* An unsettled prepareCompletion always has its barrier.
THEOREM UnsettledPrepareHolds == CoordinatorSpec => []UnsettledPrepareHasBarrier
<1>1. IInv => UnsettledPrepareHasBarrier
  BY DEF IInv, Core
<1> QED  BY <1>1, Invariance, PTL

\* No barrier is open while an HTTP document write is at work.
THEOREM ExclusionHolds == CoordinatorSpec => []BarrierExcludesExternalWriters
<1>1. IInv => BarrierExcludesExternalWriters
  BY DEF IInv
<1> QED  BY <1>1, Invariance, PTL

\* The current barrier has not been finished.
THEOREM CurrentUnreleasedHolds == CoordinatorSpec => []CurrentBarrierUnreleased
<1>1. IInv => CurrentBarrierUnreleased
  BY DEF IInv, Core, GoodBarrier, Ledger, CurrentBarrierUnreleased, Open
<1> QED  BY <1>1, Invariance, PTL

-----------------------------------------------------------------------------
(* The action properties *)

\* release writes the outcome of the current barrier, which had none.
LEMMA ReleaseKeepsOutcomes ==
    ASSUME Core, NEW o, Release(o), NEW b \in BarrierIds, released[b] # "none"
    PROVE  released'[b] = released[b]
BY DEF Core, CoreTypeOK, Ledger, Release

\* After release the released barrier is not the current one.
LEMMA ReleaseForgetsBarrier ==
    ASSUME Core, NEW o, Release(o), Frozen(barrier)
    PROVE  barrier'.id # barrier.id
BY CoordinatorConstants
DEF CoordinatorConstants, Core, GoodBarrier, Release, NoBarrier, Frozen, BarrierIds

\* An outcome that was broadcast is never replaced by another one.
THEOREM OutcomeIsFinalHolds == CoordinatorSpec => OutcomeIsFinal
<1>1. ASSUME Core, [CoordinatorNext]_coordinatorVars,
             NEW b \in BarrierIds, released[b] # "none"
      PROVE  released'[b] = released[b]
  <2>1. UNCHANGED released \/ \E o \in Outcomes : Release(o)
    BY <1>1
    DEF CoordinatorNext, coordinatorVars, OpenCompaction, Join, Acknowledge, Ready, Claim,
        Complete, Fail, Finish, Abort, Disconnected, AbortBarrier, KeepBarrier, PrepareUpdate,
        AdmitUpdate, EndCollaborationUpdate, BeginExternalUpdate, EndExternalUpdate,
        BeginCompletion, CompletionDrained, CaptureReads, CaptureResumes, CaptureFails,
        ConfirmCompletion, ClaimCompletionSubmission, CancelCompletion, Timeout, Restart,
        Outcomes
  <2> QED  BY <1>1, <2>1, ReleaseKeepsOutcomes
<1>2. IInv /\ [CoordinatorNext]_coordinatorVars
      => [\A b \in BarrierIds : released[b] # "none" => released'[b] = released[b]]_coordinatorVars
  BY <1>1 DEF IInv
<1> QED  BY <1>2, Invariance, PTL DEF CoordinatorSpec, OutcomeIsFinal

\* What a step may do to a frozen completion: nothing, release it, mark it as
\* cancelled, or let its submission begin.
LEMMA FrozenCompletionSteps ==
    ASSUME Core, [CoordinatorNext]_coordinatorVars,
           barrier.intention = "completion", Frozen(barrier)
    PROVE  \/ barrier'.id # barrier.id
           \/ barrier' = barrier
           \/ \E c \in BOOLEAN : barrier' = [barrier EXCEPT !.cancelled = c]
           \/ barrier' = [barrier EXCEPT !.phase = "committing"]
<1> DEFINE Steps == \/ barrier'.id # barrier.id
                    \/ barrier' = barrier
                    \/ \E c \in BOOLEAN : barrier' = [barrier EXCEPT !.cancelled = c]
                    \/ barrier' = [barrier EXCEPT !.phase = "committing"]
<1>1. barrier.phase # "none" /\ Open /\ barrier.phase # "draining" /\ barrier.phase # "confirming"
  BY DEF Frozen, Open
<1>2. ASSUME NEW o, Release(o) PROVE Steps
  BY <1>2, ReleaseForgetsBarrier
<1>3. ASSUME AbortBarrier PROVE Steps
  BY <1>2, <1>3 DEF AbortBarrier, Core, GoodBarrier, Barrier
<1>4. ASSUME NEW p \in Connections, Join(p) PROVE Steps
  BY <1>4 DEF Join, Joined
<1>5. ASSUME NEW id \in BarrierIds, NEW o, Finish(id, o) PROVE Steps
  BY <1>2, <1>5 DEF Finish, KeepBarrier
<1>6. ASSUME NEW c, CaptureResumes(c) PROVE Steps
  BY <1>1, <1>6 DEF CaptureResumes, KeepBarrier
<1>7. ASSUME NEW c, CaptureFails(c) PROVE Steps
  BY <1>3, <1>7 DEF CaptureFails, KeepBarrier
<1>8. ASSUME Restart PROVE Steps
  BY <1>1, <1>8, CoordinatorConstants
  DEF CoordinatorConstants, Restart, Core, GoodBarrier, NoBarrier, BarrierIds
<1>9. ASSUME NEW p \in Connections, Disconnected(p) PROVE Steps
  BY <1>3, <1>9 DEF Disconnected, KeepBarrier
<1>10. ASSUME NEW p \in Connections, PrepareUpdate(p) \/ AdmitUpdate(p) PROVE Steps
  BY <1>10 DEF PrepareUpdate, AdmitUpdate
<1>11. ASSUME NEW u \in Users, Claim(u) \/ BeginCompletion(u) PROVE Steps
  BY <1>1, <1>11 DEF Claim, BeginCompletion
<1>12. ASSUME NEW u \in Users, ClaimCompletionSubmission(u) PROVE Steps
  BY <1>12 DEF ClaimCompletionSubmission
<1>13. ASSUME NEW id \in BarrierIds, NEW p \in Connections,
              Acknowledge(id, p) \/ CompletionDrained(id, p)
       PROVE  Steps
  BY <1>1, <1>13 DEF Acknowledge, CompletionDrained, CanAcknowledge
<1>14. ASSUME NEW id \in BarrierIds, NEW p \in Connections, NEW s \in Sequences,
              ConfirmCompletion(id, p, s)
       PROVE  Steps
  BY <1>1, <1>14 DEF ConfirmCompletion
<1>15. ASSUME NEW id \in BarrierIds, NEW s \in Sequences, NEW there \in BOOLEAN,
              Ready(id, s, there)
       PROVE  Steps
  BY <1>1, <1>15 DEF Ready
<1>16. ASSUME NEW p \in Connections, NEW u \in Users, NEW P \in SUBSET Connections,
              OpenCompaction(p, u, P)
       PROVE  Steps
  BY <1>1, <1>16 DEF OpenCompaction
<1>17. ASSUME EndCollaborationUpdate \/ BeginExternalUpdate \/ EndExternalUpdate PROVE Steps
  BY <1>17 DEF EndCollaborationUpdate, BeginExternalUpdate, EndExternalUpdate
<1>18. ASSUME NEW c \in captures, NEW s \in Sequences, CaptureReads(c, s) PROVE Steps
  BY <1>18 DEF CaptureReads
<1>19. ASSUME UNCHANGED coordinatorVars PROVE Steps
  BY <1>19 DEF coordinatorVars
<1>20. ASSUME NEW id \in BarrierIds, Abort(id) PROVE Steps
  BY <1>3, <1>20 DEF Abort
<1>21. ASSUME NEW u \in Users, CancelCompletion(u) PROVE Steps
  BY <1>3, <1>21 DEF CancelCompletion
<1>22. ASSUME Timeout PROVE Steps
  BY <1>2, <1>22 DEF Timeout
<1>23. ASSUME NEW id \in BarrierIds, Complete(id) \/ Fail(id) PROVE Steps
  BY <1>5, <1>23 DEF Complete, Fail
<1> HIDE DEF Steps
<1>24. Steps
  BY <1>4, <1>6, <1>7, <1>8, <1>9, <1>10, <1>11, <1>12, <1>13, <1>14, <1>15, <1>16, <1>17,
     <1>18, <1>19, <1>20, <1>21, <1>22, <1>23
  DEF CoordinatorNext
<1> QED  BY <1>24 DEF Steps

\* A frozen completion keeps its participants and its sequence until the end.
THEOREM FrozenCompletionHolds == CoordinatorSpec => FrozenCompletionIsStable
<1>1. ASSUME Core, [CoordinatorNext]_coordinatorVars, barrier.intention = "completion",
             Frozen(barrier), barrier'.id = barrier.id
      PROVE  /\ barrier'.participants = barrier.participants
             /\ barrier'.serverSequence = barrier.serverSequence
             /\ Frozen(barrier')
  BY <1>1, FrozenCompletionSteps DEF Core, GoodBarrier, Barrier, Frozen
<1>2. IInv /\ [CoordinatorNext]_coordinatorVars
      => [(barrier.intention = "completion" /\ Frozen(barrier) /\ barrier'.id = barrier.id)
          => /\ barrier'.participants = barrier.participants
             /\ barrier'.serverSequence = barrier.serverSequence
             /\ Frozen(barrier')]_coordinatorVars
  BY <1>1 DEF IInv
<1> QED  BY <1>2, Invariance, PTL DEF CoordinatorSpec, FrozenCompletionIsStable
-----------------------------------------------------------------------------
(* The stored document *)

\* Any write operation at any time; a restart frees the Meeting row.
DocumentNext ==
    \/ \E e \in Epochs, k \in 1..MaxSequence, parent \in SnapshotIds : AppendUpdate(e, k, parent)
    \/ \E t \in Transactions, S \in SUBSET Statuses : LockMeeting(t, S)
    \/ \E t \in Transactions : Rollback(t) \/ CommitCompaction(t)
    \/ \E t \in Transactions, s \in 0..MaxSequence \cup {NotCompleted} : CommitCompletion(t, s)
    \/ \E s \in Statuses \ {"completed"} : UpdateMeeting(s)
    \/ /\ rowLock' = NoLock
       /\ UNCHANGED <<status, currentServerSequence, completedServerSequence, snapshot, updates>>

DocumentSpec == DocumentInit /\ [][DocumentNext]_documentVars

LogInv ==
    /\ DocumentTypeOK
    /\ snapshot.covered <= currentServerSequence
    /\ \A e \in Epochs : LatestClock(e) \in snapshot.clocks[e]..MaxSequence
    /\ LogIsSound

-----------------------------------------------------------------------------
(* Clocks *)

\* `ORDER BY authorClock DESC` over consecutive clocks finds the last of them.
LEMMA MaxOfInterval ==
    ASSUME NEW a \in Int, NEW b \in Int, a <= b
    PROVE  Max(a..b) = b
<1>1. b \in a..b /\ \A y \in a..b : b >= y
  OBVIOUS
<1>2. \A x \in a..b : (\A y \in a..b : x >= y) => x = b
  BY <1>1
<1> QED  BY <1>1, <1>2 DEF Max

\* What LogInv says of one epoch.
LEMMA ClocksOfEpoch ==
    ASSUME LogInv, NEW e \in Epochs
    PROVE  /\ snapshot.clocks[e] \in 0..MaxSequence
           /\ LatestClock(e) \in 0..MaxSequence
           /\ snapshot.clocks[e] <= LatestClock(e)
           /\ ClocksOf(e) = (snapshot.clocks[e] + 1)..LatestClock(e)
<1>1. snapshot.clocks[e] \in 0..MaxSequence
  BY DEF LogInv, DocumentTypeOK, Snapshot
<1>2. LatestClock(e) \in snapshot.clocks[e]..MaxSequence
  BY DEF LogInv
<1>3. ClocksOf(e) = (snapshot.clocks[e] + 1)..LatestClock(e)
  BY DEF LogInv, LogIsSound, ClocksAreSequential
<1> QED  BY <1>1, <1>2, <1>3, DocumentConstants DEF DocumentConstants

\* The clocks that compact() demands of a snapshot are the latest ones: an
\* author who continues after a compaction continues where he was.
LEMMA CoveredAreLatest ==
    ASSUME LogInv
    PROVE  CoveredClocks = [e \in Epochs |-> LatestClock(e)]
<1>1. ASSUME NEW e \in Epochs
      PROVE  Max(ClocksOf(e) \cup {snapshot.clocks[e]}) = LatestClock(e)
  <2>1. ClocksOf(e) \cup {snapshot.clocks[e]} = snapshot.clocks[e]..LatestClock(e)
    BY ClocksOfEpoch
  <2>2. snapshot.clocks[e] \in Int /\ LatestClock(e) \in Int /\ snapshot.clocks[e] <= LatestClock(e)
    BY ClocksOfEpoch
  <2>3. Max(snapshot.clocks[e]..LatestClock(e)) = LatestClock(e)
    BY <2>2, MaxOfInterval
  <2> QED  BY <2>1, <2>3
<1> QED  BY <1>1 DEF CoveredClocks

-----------------------------------------------------------------------------
(* The operations *)

\* An accepted update takes the next clock of its epoch, and no other epoch
\* notices.
LEMMA AppendMovesClocks ==
    ASSUME LogInv, NEW e \in Epochs, NEW k \in 1..MaxSequence, NEW parent \in SnapshotIds,
           AppendUpdate(e, k, parent)
    PROVE  /\ ClocksOf(e)' = ClocksOf(e) \cup {k}
           /\ \A f \in Epochs \ {e} : ClocksOf(f)' = ClocksOf(f)
           /\ \A f \in Epochs : LatestClock(f)' = IF f = e THEN LatestClock(e) + 1
                                                          ELSE LatestClock(f)
<1> DEFINE u == [epoch |-> e, clock |-> k, sequence |-> currentServerSequence + 1,
                 parent |-> parent]
<1>1. updates' = updates \cup {u} /\ UNCHANGED snapshot /\ k = LatestClock(e) + 1
  BY DEF AppendUpdate
<1>2. u.epoch = e /\ u.clock = k
  OBVIOUS
<1> HIDE DEF u
<1>3. ClocksOf(e)' = ClocksOf(e) \cup {k}
  BY <1>1, <1>2 DEF ClocksOf
<1>4. ASSUME NEW f \in Epochs \ {e} PROVE ClocksOf(f)' = ClocksOf(f)
  BY <1>1, <1>2 DEF ClocksOf
<1>5. ASSUME NEW f \in Epochs \ {e} PROVE LatestClock(f)' = LatestClock(f)
  BY <1>1, <1>4 DEF LatestClock
<1>6. LatestClock(e)' = LatestClock(e) + 1
  <2>1. ClocksOf(e)' = (snapshot.clocks[e] + 1)..(LatestClock(e) + 1)
    BY <1>1, <1>3, ClocksOfEpoch
  <2>2. Max((snapshot.clocks[e] + 1)..(LatestClock(e) + 1)) = LatestClock(e) + 1
    BY ClocksOfEpoch, MaxOfInterval
  <2>3. ClocksOf(e)' # {}
    BY <1>3
  <2> QED  BY <2>1, <2>2, <2>3 DEF LatestClock
<1> QED  BY <1>3, <1>4, <1>5, <1>6

\* appendUpdate continues the log.
LEMMA AppendPreservesLogInv ==
    ASSUME LogInv, NEW e \in Epochs, NEW k \in 1..MaxSequence, NEW parent \in SnapshotIds,
           AppendUpdate(e, k, parent)
    PROVE  LogInv'
<1> DEFINE u == [epoch |-> e, clock |-> k, sequence |-> currentServerSequence + 1,
                 parent |-> parent]
<1>1. /\ updates' = updates \cup {u}
      /\ UNCHANGED <<status, completedServerSequence, snapshot, rowLock>>
      /\ k = LatestClock(e) + 1
      /\ parent = snapshot.id
      /\ currentServerSequence < MaxSequence
      /\ currentServerSequence' = currentServerSequence + 1
  BY DEF AppendUpdate
<1>2. /\ currentServerSequence \in 0..MaxSequence /\ MaxSequence \in Nat
      /\ snapshot.covered \in 0..MaxSequence /\ snapshot.covered <= currentServerSequence
      /\ updates \in SUBSET Update
  BY DocumentConstants DEF DocumentConstants, LogInv, DocumentTypeOK, Snapshot
<1>3. u \in Update
  BY <1>1, <1>2 DEF Update
<1>4. u.epoch = e /\ u.clock = k /\ u.sequence = currentServerSequence + 1 /\ u.parent = snapshot.id
  BY <1>1
<1> HIDE DEF u
<1>5. DocumentTypeOK'
  BY <1>1, <1>2, <1>3 DEF LogInv, DocumentTypeOK
<1>6. ASSUME NEW v \in updates
      PROVE  v.sequence \in 1..currentServerSequence
  BY <1>2 DEF LogInv, LogIsSound, LogIsGapless
<1>7. LogIsGapless'
  <2>1. {v.sequence : v \in updates'} = {v.sequence : v \in updates} \cup {currentServerSequence + 1}
    BY <1>1, <1>4
  <2>2. {v.sequence : v \in updates} = (snapshot.covered + 1)..currentServerSequence
    BY DEF LogInv, LogIsSound, LogIsGapless
  <2>3. {v.sequence : v \in updates'} = (snapshot.covered + 1)..(currentServerSequence + 1)
    BY <1>2, <2>1, <2>2
  <2>4. \A v, w \in updates' : v.sequence = w.sequence => v = w
    BY <1>1, <1>2, <1>4, <1>6 DEF LogInv, LogIsSound, LogIsGapless
  <2>5. \A v \in updates' : v.parent = snapshot.id
    BY <1>1, <1>4 DEF LogInv, LogIsSound, LogIsGapless
  <2> QED  BY <1>1, <2>3, <2>4, <2>5 DEF LogIsGapless
<1>8. ASSUME NEW f \in Epochs
      PROVE  ClocksOf(f)' = (snapshot.clocks[f] + 1)..(LatestClock(f)')
  <2>1. CASE f = e
    <3>1. ClocksOf(e)' = ClocksOf(e) \cup {k} /\ LatestClock(e)' = LatestClock(e) + 1
      BY AppendMovesClocks
    <3>2. /\ snapshot.clocks[e] \in Nat /\ LatestClock(e) \in Nat
          /\ snapshot.clocks[e] <= LatestClock(e)
          /\ ClocksOf(e) = (snapshot.clocks[e] + 1)..LatestClock(e)
      BY ClocksOfEpoch
    <3>3. ClocksOf(e) \cup {k} = (snapshot.clocks[e] + 1)..(LatestClock(e) + 1)
      BY <1>1, <3>2
    <3> QED  BY <2>1, <3>1, <3>3
  <2>2. CASE f # e
    <3>1. ClocksOf(f)' = ClocksOf(f) /\ LatestClock(f)' = LatestClock(f)
      BY <2>2, AppendMovesClocks
    <3> QED  BY <3>1, ClocksOfEpoch
  <2> QED  BY <2>1, <2>2
<1>9. ASSUME NEW v \in updates, v.epoch = e
      PROVE  v.clock < k
  <2>1. v.clock \in ClocksOf(e)
    BY <1>9 DEF ClocksOf
  <2> QED  BY <1>1, <2>1, ClocksOfEpoch
<1>10. ClocksAreSequential'
  <2>1. ASSUME NEW v \in updates', NEW w \in updates', v.epoch = w.epoch
        PROVE  v.clock < w.clock <=> v.sequence < w.sequence
    <3>1. CASE v \in updates /\ w \in updates
      BY <2>1, <3>1 DEF LogInv, LogIsSound, ClocksAreSequential
    <3>2. CASE v = u /\ w = u
      BY <1>2, <1>4, <3>2
    <3>3. CASE v = u /\ w \in updates
      <4>1. w.clock < k /\ w.sequence \in 1..currentServerSequence /\ w.clock \in 1..MaxSequence
        BY <1>2, <1>4, <1>6, <1>9, <2>1, <3>3 DEF Update
      <4> QED  BY <1>2, <1>4, <3>3, <4>1
    <3>4. CASE v \in updates /\ w = u
      <4>1. v.clock < k /\ v.sequence \in 1..currentServerSequence /\ v.clock \in 1..MaxSequence
        BY <1>2, <1>4, <1>6, <1>9, <2>1, <3>4 DEF Update
      <4> QED  BY <1>2, <1>4, <3>4, <4>1
    <3> QED  BY <1>1, <3>1, <3>2, <3>3, <3>4
  <2> QED  BY <1>1, <1>8, <2>1 DEF ClocksAreSequential
<1>11. ASSUME NEW f \in Epochs PROVE (LatestClock(f) \in snapshot.clocks[f]..MaxSequence)'
  BY <1>1, <1>2, AppendMovesClocks, ClocksOfEpoch
<1>12. (snapshot.covered <= currentServerSequence)'
  BY <1>1, <1>2
<1> QED  BY <1>5, <1>7, <1>10, <1>11, <1>12 DEF LogInv, LogIsSound

\* compact replaces all stored updates and moves no clock.
LEMMA CompactionMovesNoClock ==
    ASSUME LogInv, NEW t \in Transactions, CommitCompaction(t), NEW e \in Epochs
    PROVE  /\ ClocksOf(e)' = {}
           /\ snapshot'.clocks[e] = LatestClock(e)
           /\ LatestClock(e)' = LatestClock(e)
<1>1. ClocksOf(e)' = {}
  BY DEF CommitCompaction, ClocksOf
<1>2. snapshot'.clocks[e] = LatestClock(e)
  BY CoveredAreLatest DEF CommitCompaction
<1> QED  BY <1>1, <1>2 DEF LatestClock

\* compact starts an empty log after the covered sequence.
LEMMA CompactionPreservesLogInv ==
    ASSUME LogInv, NEW t \in Transactions, CommitCompaction(t)
    PROVE  LogInv'
<1>1. /\ snapshot' = [id |-> t, covered |-> currentServerSequence,
                      clocks |-> [e \in Epochs |-> LatestClock(e)]]
      /\ updates' = {} /\ rowLock' = NoLock
      /\ UNCHANGED <<status, currentServerSequence, completedServerSequence>>
  BY CoveredAreLatest DEF CommitCompaction
<1>2. currentServerSequence \in 0..MaxSequence /\ MaxSequence \in Nat
  BY DocumentConstants DEF DocumentConstants, LogInv, DocumentTypeOK
<1>3. snapshot' \in Snapshot
  BY <1>1, <1>2, ClocksOfEpoch DEF Snapshot, SnapshotIds
<1>4. DocumentTypeOK'
  BY <1>1, <1>3 DEF LogInv, DocumentTypeOK
<1>5. LogIsGapless'
  BY <1>1, <1>2 DEF LogIsGapless
<1>6. ASSUME NEW e \in Epochs
      PROVE  /\ ClocksOf(e)' = (snapshot'.clocks[e] + 1)..(LatestClock(e)')
             /\ (LatestClock(e) \in snapshot.clocks[e]..MaxSequence)'
  <2>1. ClocksOf(e)' = {} /\ snapshot'.clocks[e] = LatestClock(e) /\ LatestClock(e)' = LatestClock(e)
    BY CompactionMovesNoClock
  <2>2. LatestClock(e) \in 0..MaxSequence
    BY ClocksOfEpoch
  <2>3. (LatestClock(e) + 1)..LatestClock(e) = {}
    BY <2>2
  <2> QED  BY <1>2, <2>1, <2>2, <2>3
<1>7. ClocksAreSequential'
  BY <1>1, <1>6 DEF ClocksAreSequential
<1>8. (snapshot.covered <= currentServerSequence)'
  BY <1>1, <1>2
<1> QED  BY <1>4, <1>5, <1>6, <1>7, <1>8 DEF LogInv, LogIsSound

\* A step that does not touch the rows of the log keeps it.
LEMMA KeepPreservesLogInv ==
    ASSUME LogInv, UNCHANGED <<currentServerSequence, snapshot, updates>>,
           status' \in Statuses, completedServerSequence' \in 0..MaxSequence \cup {NotCompleted},
           rowLock' \in Transactions \cup {NoLock}
    PROVE  LogInv' /\ \A e \in Epochs : LatestClock(e)' = LatestClock(e)
BY DEF LogInv, DocumentTypeOK, LogIsSound, LogIsGapless, ClocksAreSequential, LatestClock, ClocksOf

\* Every other operation is such a step, and it opens no completed Meeting.
LEMMA OtherOperationsKeep ==
    ASSUME DocumentTypeOK,
           \/ \E t \in Transactions, S \in SUBSET Statuses : LockMeeting(t, S)
           \/ \E t \in Transactions : Rollback(t)
           \/ \E t \in Transactions, s \in 0..MaxSequence \cup {NotCompleted} :
                 CommitCompletion(t, s)
           \/ \E s \in Statuses \ {"completed"} : UpdateMeeting(s)
           \/ /\ rowLock' = NoLock
              /\ UNCHANGED <<status, currentServerSequence, completedServerSequence,
                             snapshot, updates>>
           \/ UNCHANGED documentVars
    PROVE  /\ UNCHANGED <<currentServerSequence, snapshot, updates>>
           /\ status' \in Statuses
           /\ completedServerSequence' \in 0..MaxSequence \cup {NotCompleted}
           /\ rowLock' \in Transactions \cup {NoLock}
           /\ status = "completed" => status' = "completed"
BY DEF DocumentTypeOK, LockMeeting, Rollback, CommitCompletion, UpdateMeeting, documentVars, Statuses

-----------------------------------------------------------------------------
(* The theorems *)

\* A new Meeting has an empty log.
LEMMA InitEstablishesLogInv ==
    DocumentInit => LogInv
<1> SUFFICES ASSUME DocumentInit PROVE LogInv
  OBVIOUS
<1>1. DocumentTypeOK
  BY DocumentConstants
  DEF DocumentConstants, DocumentInit, DocumentTypeOK, Statuses, Snapshot, SnapshotIds
<1>2. \A e \in Epochs : ClocksOf(e) = {} /\ LatestClock(e) = 0 /\ snapshot.clocks[e] = 0
  BY DEF DocumentInit, ClocksOf, LatestClock
<1>3. LogIsSound
  <2>1. LogIsGapless
    BY DEF DocumentInit, LogIsGapless
  <2>2. ASSUME NEW e \in Epochs
        PROVE  ClocksOf(e) = (snapshot.clocks[e] + 1)..LatestClock(e)
    <3>1. (0 + 1)..0 = {}
      OBVIOUS
    <3> QED  BY <1>2, <3>1
  <2>3. \A u, v \in updates :
           u.epoch = v.epoch => (u.clock < v.clock <=> u.sequence < v.sequence)
    BY DEF DocumentInit
  <2> QED  BY <2>1, <2>2, <2>3 DEF LogIsSound, ClocksAreSequential
<1> QED  BY <1>1, <1>2, <1>3, DocumentConstants DEF DocumentConstants, DocumentInit, LogInv

\* Every write operation keeps the log.
LEMMA NextPreservesLogInv ==
    LogInv /\ [DocumentNext]_documentVars => LogInv'
<1> SUFFICES ASSUME LogInv, [DocumentNext]_documentVars PROVE LogInv'
  OBVIOUS
<1>1. CASE \E e \in Epochs, k \in 1..MaxSequence, parent \in SnapshotIds :
              AppendUpdate(e, k, parent)
  BY <1>1, AppendPreservesLogInv
<1>2. CASE \E t \in Transactions : CommitCompaction(t)
  BY <1>2, CompactionPreservesLogInv
<1>3. CASE \/ \E t \in Transactions, S \in SUBSET Statuses : LockMeeting(t, S)
           \/ \E t \in Transactions : Rollback(t)
           \/ \E t \in Transactions, s \in 0..MaxSequence \cup {NotCompleted} :
                 CommitCompletion(t, s)
           \/ \E s \in Statuses \ {"completed"} : UpdateMeeting(s)
           \/ /\ rowLock' = NoLock
              /\ UNCHANGED <<status, currentServerSequence, completedServerSequence,
                             snapshot, updates>>
           \/ UNCHANGED documentVars
  <2>1. DocumentTypeOK
    BY DEF LogInv
  <2>2. /\ UNCHANGED <<currentServerSequence, snapshot, updates>>
        /\ status' \in Statuses
        /\ completedServerSequence' \in 0..MaxSequence \cup {NotCompleted}
        /\ rowLock' \in Transactions \cup {NoLock}
    BY <1>3, <2>1, OtherOperationsKeep
  <2> QED  BY <2>2, KeepPreservesLogInv
<1> QED  BY <1>1, <1>2, <1>3 DEF DocumentNext

\* The invariant holds whatever operations are called.
THEOREM LogInvariance == DocumentSpec => []LogInv
BY InitEstablishesLogInv, NextPreservesLogInv, PTL DEF DocumentSpec

\* Every operation is an accepted update, the completion, or nothing to the
\* authors: compactions, locks, rollbacks and restarts are invisible.
LEMMA NextRefinesLog ==
    LogInv /\ [DocumentNext]_documentVars => [Log!LogNext]_Log!logVars
<1> SUFFICES ASSUME LogInv, [DocumentNext]_documentVars
             PROVE  Log!LogNext \/ UNCHANGED Log!logVars
  OBVIOUS
<1>1. ASSUME NEW e \in Epochs, NEW k \in 1..MaxSequence, NEW parent \in SnapshotIds,
             AppendUpdate(e, k, parent)
      PROVE  Log!Accept(e)
  <2>1. \A f \in Epochs : LatestClock(f)' = IF f = e THEN LatestClock(e) + 1 ELSE LatestClock(f)
    BY <1>1, AppendMovesClocks
  <2>2. [f \in Epochs |-> LatestClock(f)]'
          = [[f \in Epochs |-> LatestClock(f)] EXCEPT ![e] = @ + 1]
    BY <2>1
  <2>3. /\ status # "completed" /\ status' = status
        /\ currentServerSequence' = currentServerSequence + 1
    BY <1>1 DEF AppendUpdate
  <2> QED  BY <2>2, <2>3 DEF Log!Accept
<1>2. ASSUME NEW t \in Transactions, CommitCompaction(t)
      PROVE  UNCHANGED Log!logVars
  <2>1. \A f \in Epochs : LatestClock(f)' = LatestClock(f)
    BY <1>2, CompactionMovesNoClock
  <2>2. UNCHANGED <<status, currentServerSequence>>
    BY <1>2 DEF CommitCompaction
  <2> QED  BY <2>1, <2>2 DEF Log!logVars
<1>3. CASE \/ \E t \in Transactions, S \in SUBSET Statuses : LockMeeting(t, S)
           \/ \E t \in Transactions : Rollback(t)
           \/ \E t \in Transactions, s \in 0..MaxSequence \cup {NotCompleted} :
                 CommitCompletion(t, s)
           \/ \E s \in Statuses \ {"completed"} : UpdateMeeting(s)
           \/ /\ rowLock' = NoLock
              /\ UNCHANGED <<status, currentServerSequence, completedServerSequence,
                             snapshot, updates>>
           \/ UNCHANGED documentVars
  <2>1. DocumentTypeOK
    BY DEF LogInv
  <2>2. /\ UNCHANGED <<currentServerSequence, snapshot, updates>>
        /\ status = "completed" => status' = "completed"
    BY <1>3, <2>1, OtherOperationsKeep
  <2>3. \A f \in Epochs : LatestClock(f)' = LatestClock(f)
    BY <2>2 DEF LatestClock, ClocksOf
  <2> QED  BY <2>2, <2>3 DEF Log!LogNext, Log!Seal, Log!logVars
<1> QED  BY <1>1, <1>2, <1>3 DEF DocumentNext, Log!LogNext

\* The stored document implements the append-only log.
THEOREM DocumentImplementsLog == DocumentSpec => ImplementsLog
<1>1. DocumentInit => Log!LogInit
  <2> SUFFICES ASSUME DocumentInit PROVE Log!LogInit
    OBVIOUS
  <2>1. \A e \in Epochs : LatestClock(e) = 0
    BY DEF DocumentInit, ClocksOf, LatestClock
  <2> QED  BY <2>1 DEF DocumentInit, Log!LogInit
<1> QED
  BY <1>1, LogInvariance, NextRefinesLog, PTL DEF DocumentSpec, ImplementsLog, Log!LogSpec

\* No accepted update is lost, stored twice or reordered, and no author clock is
\* used twice, through any number of compactions.
THEOREM LogSoundHolds == DocumentSpec => []LogIsSound
<1>1. LogInv => LogIsSound
  BY DEF LogInv
<1> QED  BY <1>1, LogInvariance, PTL
=============================================================================
