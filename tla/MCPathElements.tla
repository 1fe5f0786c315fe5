--------------------------- MODULE MCPathElements ---------------------------
(* Every path of at most two items over 4-bit integers, with integers just   *)
(* outside isize and usize, and for every such tuple also a few things that  *)
(* an overridden __iter__ may yield instead.                                 *)
EXTENDS PathElements

Items == [kind : {"str"}, value : Text]
           \cup [kind : {"int"}, value : -Half - 1 .. 2 * Half]
           \cup {[kind |-> k] : k \in {"surrogate", "bool", "other"}}

Walks == {<<>>, <<[kind |-> "bool"]>>} \cup {<<[kind |-> "str", value |-> s]>> : s \in Text}
           \cup {<<[kind |-> "int", value |-> -Half], [kind |-> "int", value |-> n]>> :
                    n \in {Half, 2 * Half}}

Paths == UNION {[1 .. n -> Items] : n \in 0 .. 2}
=============================================================================
