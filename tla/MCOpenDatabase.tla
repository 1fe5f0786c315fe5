--------------------------- MODULE MCOpenDatabase ---------------------------
(* Openers and files are interchangeable. *)
EXTENDS OpenDatabase, TLC

Symmetry == Permutations(Opener) \cup Permutations(Inode)
=============================================================================
