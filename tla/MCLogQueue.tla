----------------------------- MODULE MCLogQueue -----------------------------
(***************************************************************************)
(* Instances of LogQueue for TLC: threads that are interchangeable.        *)
(***************************************************************************)
EXTENDS LogQueue, TLC

Symmetry == Permutations(Threads)

=============================================================================
