---------------------------- MODULE PrefixLength ----------------------------
(***************************************************************************)
(* get_with_prefix_len(): the walk of the search tree down to the leaf     *)
(* that answers, the network of that leaf, and convert_prefix_len(), which *)
(* brings its length into the terms of the queried address.                *)
(* A leaf of an IPv6 tree may lie above the node at which the IPv4         *)
(* addresses begin.                                                        *)
(***************************************************************************)
EXTENDS SearchTree

VARIABLES depth,     \* how far the walk has come
          network,   \* what the crate reports as the leaf's network
          reported   \* the prefix length the caller gets

walk == <<depth, network, reported>>

NoNetwork == [family |-> 0, prefix |-> 0]
Pending == -1

PrefixInit == depth = 0 /\ network = NoNetwork /\ reported = Pending

Asked == query = "get_with_prefix_len"
Path == SubSeq(Key(ip), 1, depth)

Walk == /\ Asked /\ Path \notin Leaves
        /\ depth' = depth + 1
        /\ UNCHANGED <<db, network, reported>>

\* The crate gives the leaf's network in the terms of the tree, or as an IPv4 network if
\* it is one; a leaf above the IPv4 addresses has only an IPv6 network.
Network == /\ Asked /\ Path \in Leaves /\ network = NoNetwork
           /\ \/ network' = [family |-> version, prefix |-> depth]
              \/ /\ Family(ip) = 4 /\ version = 6 /\ depth >= Padding
                 /\ network' = [family |-> 4, prefix |-> depth - Padding]
           /\ UNCHANGED <<db, depth, reported>>

\* mutant: a leaf above the IPv4 addresses is reported as a single address
ConvertToHost ==
  /\ network # NoNetwork /\ reported = Pending
  /\ reported' = IF Family(ip) = 4 /\ network.family = 6
                 THEN IF network.prefix >= Padding THEN network.prefix - Padding ELSE V4Bits
                 ELSE network.prefix
  /\ UNCHANGED <<db, depth, network>>

\* convert_prefix_len(): saturating_sub(96) for an IPv4 address and an IPv6 network.
Convert ==
  /\ network # NoNetwork /\ reported = Pending
  /\ reported' = IF Family(ip) = 4 /\ network.family = 6
                 THEN IF network.prefix >= Padding THEN network.prefix - Padding ELSE 0
                 ELSE network.prefix
  /\ UNCHANGED <<db, depth, network>>

PrefixNext == Walk \/ Network \/ Convert

-----------------------------------------------------------------------------
\* The addresses of the queried family that agree with the address in as many bits as
\* reported are exactly those the same leaf answers, so that a caller may file the record
\* under that network: too long a prefix would lose addresses, too short a one would claim
\* others, also where the leaf is wider than all IPv4 addresses (convert_prefix_len).
PrefixIsLeaf ==
  reported # Pending =>
    \A a \in Bits(Len(ip)) :
      SubSeq(a, 1, reported) = SubSeq(ip, 1, reported) <=> LeafOf(a) = LeafOf(ip)
=============================================================================
