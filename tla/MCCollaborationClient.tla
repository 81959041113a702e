------------------------ MODULE MCCollaborationClient ------------------------
(***************************************************************************)
(* Small instances of CollaborationClient for TLC.                         *)
(***************************************************************************)
EXTENDS CollaborationClient

CONSTANTS a, b

\* A connection belongs to the client that opened it.
MCConnections == Clients \X (1..MaxLinks)
MCEpochs == Clients \X (0..MaxRotations)
MCTransactions == 1..MaxBarriers
MCSequences == 0..MaxSequence

PerClient(na, nb) == (a :> na) @@ (b :> nb)
Case(edits, refreshes, completers, unreliable, barriers, interval) ==
    [edits |-> edits, refreshes |-> refreshes, completers |-> completers,
     unreliable |-> unreliable, barriers |-> barriers, interval |-> interval]

\* A socket breaks and comes back around a compaction.
Reconnect == Case(PerClient(2, 1), PerClient(0, 0), {}, {a}, 1, 2)
\* One writes over an unreliable socket while the other completes.
Completion == Case(PerClient(2, 0), PerClient(0, 0), {b}, {a}, 1, 1)
\* Two compactions while a workspace is refreshed.
Refreshed == Case(PerClient(1, 1), PerClient(0, 1), {}, {}, 2, 1)
MCCases == {Reconnect, Completion, Refreshed}

\* Edits only, and a completion before anybody is connected.
EditsOnly == {Case(PerClient(1, 1), PerClient(0, 0), {}, {}, 0, 5)}
EarlyCompletion == {Case(PerClient(1, 1), PerClient(0, 0), {a}, {}, 1, 5)}

ClientSymmetry == Permutations(Clients)
=============================================================================
