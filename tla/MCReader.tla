------------------------------ MODULE MCReader ------------------------------
(* Instances of Reader for TLC: the sets of methods of each run. *)
EXTENDS Reader

AllMethods == Single \cup Batch \cup {"metadata", "closed", "close", "enter", "iter", "next"}
ClosingMethods == {"get_many", "iter", "next", "close"}
=============================================================================
