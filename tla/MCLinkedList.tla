---------------------------- MODULE MCLinkedList ---------------------------
(***************************************************************************)
(* Up to four nodes; insert keys below, equal to and above those that      *)
(* prepend gives out.                                                      *)
(***************************************************************************)
EXTENDS LinkedList, TLC

MCLowestKey == -3
NodeSymmetry == Permutations(Nodes)
=============================================================================
