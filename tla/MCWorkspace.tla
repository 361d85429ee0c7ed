---------------------------- MODULE MCWorkspace ----------------------------
(***************************************************************************)
(* Instances of Workspace for TLC: processes and ports are interchangeable *)
(***************************************************************************)
EXTENDS Workspace, TLC

Symmetry == Permutations(Procs) \cup Permutations(Ports)
=============================================================================
