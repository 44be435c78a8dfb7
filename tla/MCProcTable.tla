---------------------------- MODULE MCProcTable ----------------------------
(***************************************************************************)
(* A program and the two processes it forks, for two of which there are    *)
(* pids: forks race with each other, and the table fills up.               *)
(***************************************************************************)
EXTENDS ProcTable, TLC

ProcSymmetry == Permutations(UProcs)
=============================================================================
