------------------------------ MODULE MCHangman ----------------------------
(***************************************************************************)
(* Three threads and three locks: circles of two and of three threads.     *)
(***************************************************************************)
EXTENDS Hangman, TLC

ActorSymmetry == Permutations(Threads) \cup Permutations(Locks)
=============================================================================
