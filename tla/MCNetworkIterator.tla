------------------------- MODULE MCNetworkIterator -------------------------
(* Instances of NetworkIterator for TLC. *)
EXTENDS NetworkIterator, TLC

ThreadSymmetry == Permutations(Thread)
=============================================================================
