----------------------------- MODULE MeetingLog -----------------------------
(***************************************************************************)
(* What the stored document of a Meeting promises to its authors, without  *)
(* snapshots, barriers, transactions or restarts: an append-only log that  *)
(* is sealed once.  Each accepted update takes the next position and the   *)
(* next author clock of its client epoch; sealing ends the log.            *)
(* MeetingDocument implements it (its operator Log).                       *)
(***************************************************************************)
EXTENDS Integers

CONSTANT Epochs

VARIABLES
    length,   \* updates accepted so far
    clocks,   \* last accepted author clock of each epoch
    sealed    \* is the Meeting completed?

logVars == <<length, clocks, sealed>>

LogInit ==
    /\ length = 0
    /\ clocks = [e \in Epochs |-> 0]
    /\ sealed = FALSE

Accept(e) ==
    /\ ~sealed
    /\ length' = length + 1
    /\ clocks' = [clocks EXCEPT ![e] = @ + 1]
    /\ UNCHANGED sealed

Seal ==
    /\ ~sealed
    /\ sealed' = TRUE
    /\ UNCHANGED <<length, clocks>>

LogNext == Seal \/ \E e \in Epochs : Accept(e)

LogSpec == LogInit /\ [][LogNext]_logVars
=============================================================================
