---------------------------- MODULE MCScheduler ----------------------------
EXTENDS Scheduler, TLC

KidSymmetry == Permutations(Kids)
=============================================================================
