------------------------------- MODULE MCRaft -------------------------------
(***************************************************************************)
(* RaftCluster as TLC checks it: one controller, one client (rank 1) and   *)
(* the servers from rank 2.                                                *)
(***************************************************************************)
EXTENDS RaftCluster, TLC

\* Commands are only ever compared with each other.
Symmetry == Permutations(Commands)
=============================================================================
