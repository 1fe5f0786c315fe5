---------------------------- MODULE TreeQueries ----------------------------
(***************************************************************************)
(* One database, and one program that asks it for a prefix length, for its *)
(* metadata, or for its networks in one of the ways of                     *)
(* examples/iterator_demo.py.  The trees differ: every one for the first   *)
(* two, those of few leaves but with every choice of records for the last. *)
(***************************************************************************)
EXTENDS PrefixLength, Metadata, IteratorDemo

vars == <<db, walk, metadata, demo>>

\* An IPv6 address is not looked up in an IPv4 database (validate_lookup_ip).
Addresses == IF version = 4 THEN Bits(V4Bits) ELSE Bits(V4Bits) \cup Bits(V6Bits)

AnyTree == \E leaves \in Trees[Width(version)] : tree = [p \in leaves |-> None]

Init == /\ version \in {4, 6}
        /\ \/ DemoDatabase
           \/ query = "get_with_prefix_len" /\ AnyTree /\ ip \in Addresses
           \/ query = "metadata" /\ AnyTree /\ ip = [i \in 1..V4Bits |-> 0]
        /\ record_size \in IF query = "metadata" THEN RecordSize ELSE {24}
        /\ PrefixInit /\ MetadataInit /\ DemoInit

Next == \/ PrefixNext /\ UNCHANGED <<metadata, demo>>
        \/ MetadataNext /\ UNCHANGED <<walk, demo>>
        \/ DemoNext /\ UNCHANGED <<walk, metadata>>

Spec == Init /\ [][Next]_vars
=============================================================================
