---------------------- MODULE MCCompactionCoordinator ----------------------
(***************************************************************************)
(* The coordinator alone, its methods called in every order.               *)
(***************************************************************************)
EXTENDS CompactionCoordinator, TLC

\* Connections are interchangeable.
ConnectionSymmetry == Permutations(Connections)
=============================================================================
