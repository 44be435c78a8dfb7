---------------------------- MODULE MCFileTable ----------------------------
(***************************************************************************)
(* A process and the one it forks, with two descriptors each.  What the    *)
(* tables guarantee, they guarantee until dup2 has been used: the search   *)
(* does not go on from a state in which one has completed.                 *)
(***************************************************************************)
EXTENDS FileTable, TLC

FileSymmetry == Permutations(Files) \cup Permutations(Vnodes)

UntilDup2 == dupped => \E p \in Procs : pc[p] \in {"dupc", "dupi"}
=============================================================================
