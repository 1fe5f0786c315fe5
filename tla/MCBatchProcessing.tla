------------------------- MODULE MCBatchProcessing -------------------------
(* Three sample addresses and three records, two of the same country. *)
EXTENDS BatchProcessing

Samples == <<"8.8.8.8", "1.1.1.1", "9.9.9.9">>
Records == {[country |-> "AU", city |-> "Sydney"], [country |-> "AU", city |-> "Unknown"],
            [country |-> "US", city |-> "Unknown"]}
=============================================================================
