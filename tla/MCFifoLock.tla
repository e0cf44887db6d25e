----------------------------- MODULE MCFifoLock -----------------------------
(* FifoLock on a few interchangeable threads.  The symmetry is used only for *)
(* runs without temporal properties.                                         *)
EXTENDS FifoLock, TLC

ThreadSymmetry == Permutations(Threads)
=============================================================================
