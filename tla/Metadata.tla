------------------------------ MODULE Metadata ------------------------------
(***************************************************************************)
(* The copy that Reader.metadata() makes of the crate's metadata, and the  *)
(* two sizes that are computed from it when Python asks for them.  The     *)
(* machine's u32 is scaled to Word values, with trees to match.            *)
(***************************************************************************)
EXTENDS SearchTree

CONSTANT Word   \* 2^32 in the code

ASSUME WordAssumption == Word \in Nat \ {0}

VARIABLES record_size,  \* bits of one of the two records of a node, in the open database
          meta,         \* record_size and node_count of the Metadata object
          size          \* the last answer of search_tree_size

metadata == <<record_size, meta, size>>

RecordSize == {24, 28, 32}
NoMetadata == [record_size |-> 0, node_count |-> 0]
NotAsked == -1

\* A tree has one leaf more than nodes.
NodeCount == Cardinality(Leaves) - 1

MetadataInit == meta = NoMetadata /\ size = NotAsked

\* Metadata::from_maxmind
FromMaxmind == /\ query = "metadata" /\ meta = NoMetadata
               /\ meta' = [record_size |-> record_size, node_count |-> NodeCount]
               /\ UNCHANGED <<db, record_size, size>>

\* mutant: a node taken for one record
NodeByteSizeOne(m) == m.record_size \div 8

NodeByteSize(m) == m.record_size \div 4

\* A u32 product, without overflow checks in a release build.
SearchTreeSize == /\ meta # NoMetadata
                  /\ size' = (meta.node_count * NodeByteSize(meta)) % Word
                  /\ UNCHANGED <<db, record_size, meta>>

MetadataNext == FromMaxmind \/ SearchTreeSize

-----------------------------------------------------------------------------
\* A node is two records of record_size bits.
TreeBits == NodeCount * 2 * record_size

\* As long as the tree has less than Word bytes search_tree_size is that of the tree, for
\* each of the record sizes, the odd one of 28 bits included.
ExactBelowLimit == size # NotAsked /\ TreeBits < 8 * Word => 8 * size = TreeBits
=============================================================================
