--------------------------- MODULE MCMeetingServer ---------------------------
(***************************************************************************)
(* Small instances of MeetingServer for TLC.                               *)
(***************************************************************************)
EXTENDS MeetingServer, TLC

CONSTANT u1

\* All connections belong to one user.
OneUser == [c \in Connections |-> u1]

ConnectionSymmetry == Permutations(Connections)

\* So are the epochs.
CompactionSymmetry == Permutations(Connections) \cup Permutations(Epochs)
=============================================================================
