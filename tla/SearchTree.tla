----------------------------- MODULE SearchTree -----------------------------
(***************************************************************************)
(* The search tree of a database, as the maxminddb crate reads it, and the *)
(* one question a program asks of it.  An address is a sequence of bits;   *)
(* the IPv4 addresses of an IPv6 tree are those that begin with Padding    *)
(* zeros (96 of them in reality).                                          *)
(***************************************************************************)
EXTENDS Integers, FiniteSets, Sequences

CONSTANTS V4Bits,   \* length of an IPv4 address
          Padding   \* what an IPv6 address has in addition

ASSUME TreeAssumption == V4Bits \in Nat \ {0} /\ Padding \in Nat \ {0}

VARIABLES query,    \* the method or function that runs
          version,  \* ip_version of the database
          tree,     \* the record at each leaf of its tree, a leaf being its path
          ip        \* the address that is asked for

db == <<query, version, tree, ip>>

V6Bits == Padding + V4Bits
Width(f) == IF f = 4 THEN V4Bits ELSE V6Bits
Bits(n) == [1..n -> {0, 1}]
Family(a) == IF Len(a) = V4Bits THEN 4 ELSE 6
Zeros == [i \in 1..Padding |-> 0]

\* Every binary tree of at most n levels, as the set of the paths to its leaves.
Trees[n \in 0..V6Bits] ==
  IF n = 0 THEN {{<<>>}}
  ELSE {{<<>>}} \cup {{<<0>> \o p : p \in l} \cup {<<1>> \o p : p \in r} :
                        l \in Trees[n - 1], r \in Trees[n - 1]}

Leaves == DOMAIN tree

\* The bits by which an address is looked up.
Key(a) == IF version = 6 /\ Family(a) = 4 THEN Zeros \o a ELSE a

Agrees(p, key) == p = SubSeq(key, 1, Len(p))

LeafOf(a) == CHOOSE p \in Leaves : Agrees(p, Key(a))
=============================================================================
