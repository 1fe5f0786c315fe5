------------------------- MODULE TreeQueriesProofs -------------------------
(***************************************************************************)
(* What a database answers, for every tree: the prefix length is that of   *)
(* the leaf, the size that of the tree, and the examples that iterate the  *)
(* networks print, count and find what the tree has.                       *)
(***************************************************************************)
EXTENDS TreeQueries, FiniteSetTheorems, SequenceTheorems, WellFoundedInduction, TLAPS

-----------------------------------------------------------------------------
(* Trees                                                                   *)

\* A nonempty set of naturals has a least member.
LEMMA LeastNatural ==
  ASSUME NEW T \in SUBSET Nat, T # {}
  PROVE  \E m \in T : \A n \in T : m <= n
<1> DEFINE R == {ss \in Nat \X Nat : ss[1] < ss[2]}
<1>1. IsWellFoundedOn(R, Nat)
  BY NatLessThanWellFounded DEF OpToRel
<1>2. PICK m \in T : \A n \in T : <<n, m>> \notin R
  <2> HIDE DEF R
  <2> QED BY <1>1, WFMin
<1>3. ASSUME NEW n \in T PROVE m <= n
  <2>1. <<n, m>> \in Nat \X Nat /\ <<n, m>>[1] = n /\ <<n, m>>[2] = m
    OBVIOUS
  <2> QED BY <1>2, <2>1
<1> QED BY <1>3

\* A prefix, bit by bit.
LEMMA PrefixIs ==
  ASSUME NEW s, NEW t, NEW m \in Nat
  PROVE  /\ Len(SubSeq(s, 1, m)) = m
         /\ \A i \in 1..m : SubSeq(s, 1, m)[i] = s[i]
         /\ SubSeq(s, 1, m) = SubSeq(t, 1, m) <=> \A i \in 1..m : s[i] = t[i]
<1> DEFINE S == {s[i] : i \in 1..m} \cup {t[i] : i \in 1..m}
<1>1. \A i \in 1..m : s[i] \in S /\ t[i] \in S /\ 1 + i - 1 = i
  OBVIOUS
<1>2. m - 1 + 1 = m /\ (IF 1 <= m THEN m - 1 + 1 ELSE 0) = m
  OBVIOUS
<1> HIDE DEF S
<1>3. /\ SubSeq(s, 1, m) \in Seq(S) /\ Len(SubSeq(s, 1, m)) = m
      /\ \A i \in 1..m : SubSeq(s, 1, m)[i] = s[i]
  BY <1>1, <1>2, SubSeqProperties
<1>4. /\ SubSeq(t, 1, m) \in Seq(S) /\ Len(SubSeq(t, 1, m)) = m
      /\ \A i \in 1..m : SubSeq(t, 1, m)[i] = t[i]
  BY <1>1, <1>2, SubSeqProperties
<1>5. ASSUME \A i \in 1..m : s[i] = t[i] PROVE SubSeq(s, 1, m) = SubSeq(t, 1, m)
  BY <1>3, <1>4, <1>5, SeqEqual
<1>6. ASSUME SubSeq(s, 1, m) = SubSeq(t, 1, m), NEW i \in 1..m PROVE s[i] = t[i]
  BY <1>3, <1>4, <1>6
<1> QED BY <1>3, <1>5, <1>6

Bit == {0, 1}

\* A path agrees with a key if it has its bits, as far as it goes.
LEMMA AgreesIs ==
  ASSUME NEW p \in Seq(Bit), NEW key
  PROVE  Agrees(p, key) <=> \A i \in 1..Len(p) : p[i] = key[i]
<1>1. PICK m \in Nat : m = Len(p)
  BY LenProperties
<1>2. SubSeq(p, 1, m) = p
  <2>1. \A i \in 1..m : p[i] \in Bit /\ 1 + i - 1 = i
    BY <1>1, ElementOfSeq
  <2>2. (IF 1 <= m THEN m - 1 + 1 ELSE 0) = m /\ m - 1 + 1 = m
    OBVIOUS
  <2>3. SubSeq(p, 1, m) \in Seq(Bit)
    BY <2>1, SubSeqProperties
  <2> QED BY <1>1, <2>3, PrefixIs, SeqEqual
<1> QED BY <1>1, <1>2, PrefixIs DEF Agrees

\* A bit in front of a path, and the rest of a key.
LEMMA FirstBit ==
  ASSUME NEW n \in Nat \ {0}, NEW key \in Bits(n), NEW p \in Seq(Bit), NEW b \in Bit
  PROVE  /\ [i \in 1..(n - 1) |-> key[i + 1]] \in Bits(n - 1)
         /\ <<b>> \o p \in Seq(Bit) /\ Len(<<b>> \o p) = Len(p) + 1
         /\ Len(p) <= n - 1 =>
               (Agrees(<<b>> \o p, key) <=> b = key[1] /\ Agrees(p, [i \in 1..(n - 1) |-> key[i + 1]]))
<1> DEFINE rest == [i \in 1..(n - 1) |-> key[i + 1]]
           q == <<b>> \o p
<1>1. PICK m \in Nat : m = Len(p)
  BY LenProperties
<1>2. rest \in Bits(n - 1)
  <2>1. \A i \in 1..(n - 1) : i + 1 \in 1..n
    OBVIOUS
  <2> QED BY <2>1 DEF Bits
<1>3. <<b>> \in Seq(Bit) /\ Len(<<b>>) = 1 /\ <<b>>[1] = b
  OBVIOUS
<1>4. /\ q \in Seq(Bit) /\ Len(q) = m + 1
      /\ \A i \in 1..(m + 1) : q[i] = IF i <= 1 THEN b ELSE p[i - 1]
  <2>1. /\ q \in Seq(Bit) /\ Len(q) = Len(<<b>>) + Len(p)
        /\ \A i \in 1..(Len(<<b>>) + Len(p)) :
              q[i] = IF i <= Len(<<b>>) THEN <<b>>[i] ELSE p[i - Len(<<b>>)]
    BY <1>3, ConcatProperties
  <2>2. 1 + m = m + 1 /\ \A i \in 1..(m + 1) : i <= 1 => i = 1
    OBVIOUS
  <2> QED BY <1>1, <1>3, <2>1, <2>2
<1>5. ASSUME m <= n - 1 PROVE Agrees(q, key) <=> b = key[1] /\ Agrees(p, rest)
  <2> HIDE DEF q, rest
  <2>1. Agrees(q, key) <=> \A i \in 1..(m + 1) : q[i] = key[i]
    <3>1. q \in Seq(Bit) /\ Len(q) = m + 1
      BY <1>4
    <3> QED BY <3>1, AgreesIs
  <2>2. Agrees(p, rest) <=> \A i \in 1..m : p[i] = rest[i]
    BY <1>1, AgreesIs
  <2>3. \A i \in 1..m : i \in 1..(n - 1) /\ i + 1 \in 1..(m + 1) /\ ~(i + 1 <= 1) /\ i + 1 - 1 = i
    BY <1>5
  <2>4. \A i \in 1..m : rest[i] = key[i + 1] /\ q[i + 1] = p[i]
    <3>1. \A i \in 1..m : rest[i] = key[i + 1]
      BY <2>3 DEF rest
    <3>2. ASSUME NEW i \in 1..m PROVE q[i + 1] = p[i]
      <4>1. q[i + 1] = IF i + 1 <= 1 THEN b ELSE p[i + 1 - 1]
        BY <1>4, <2>3
      <4> QED BY <2>3, <4>1
    <3> QED BY <3>1, <3>2
  <2>5. 1 \in 1..(m + 1) /\ q[1] = b
    BY <1>4
  <2>6. \A i \in 1..(m + 1) : i = 1 \/ (i - 1 \in 1..m /\ i - 1 + 1 = i)
    OBVIOUS
  <2>7. ASSUME Agrees(q, key) PROVE b = key[1] /\ Agrees(p, rest)
    BY <2>1, <2>2, <2>3, <2>4, <2>5, <2>7
  <2>8. ASSUME b = key[1], Agrees(p, rest) PROVE Agrees(q, key)
    <3>1. ASSUME NEW i \in 1..(m + 1) PROVE q[i] = key[i]
      <4>1. CASE i = 1
        BY <2>5, <2>8, <4>1
      <4>2. CASE i # 1
        <5>1. PICK j \in 1..m : i = j + 1
          BY <2>6, <4>2
        <5> QED BY <2>2, <2>4, <2>8, <5>1
      <4> QED BY <4>1, <4>2
    <3> QED BY <2>1, <3>1
  <2> QED BY <2>7, <2>8
<1> QED BY <1>1, <1>2, <1>4, <1>5

\* A binary tree of at most n levels: each key ends at one leaf.
IsTree(T, n) ==
  /\ IsFiniteSet(T)
  /\ \A p \in T : p \in Seq(Bit) /\ Len(p) <= n
  /\ \A key \in Bits(n) : \E p \in T : Agrees(p, key) /\ \A q \in T : Agrees(q, key) => q = p

Join(l, r) == {<<0>> \o p : p \in l} \cup {<<1>> \o p : p \in r}

\* The tree without a node.
LEMMA NoNode ==
  ASSUME NEW n \in Nat
  PROVE  IsTree({<<>>}, n)
<1>1. <<>> \in Seq(Bit) /\ Len(<<>>) = 0 /\ 1..0 = {}
  OBVIOUS
<1>2. \A key : Agrees(<<>>, key)
  BY <1>1, AgreesIs
<1>3. IsFiniteSet({<<>>})
  BY FS_Singleton
<1> QED BY <1>1, <1>2, <1>3 DEF IsTree

\* A node above two trees.
LEMMA JoinIsTree ==
  ASSUME NEW n \in Nat \ {0}, NEW l, NEW r, IsTree(l, n - 1), IsTree(r, n - 1)
  PROVE  IsTree(Join(l, r), n)
<1>1. /\ \A p \in l : p \in Seq(Bit) /\ Len(p) <= n - 1 /\ Len(p) \in Nat
      /\ \A p \in r : p \in Seq(Bit) /\ Len(p) <= n - 1 /\ Len(p) \in Nat
  BY LenProperties DEF IsTree
<1>2. 0 \in Bit /\ 1 \in Bit /\ 0 # 1
  BY DEF Bit
<1>3. ASSUME NEW q \in Join(l, r) PROVE q \in Seq(Bit) /\ Len(q) <= n
  <2>1. PICK b \in Bit, p \in l \cup r : q = <<b>> \o p
    BY <1>2 DEF Join
  <2>2. [i \in 1..n |-> 0] \in Bits(n)
    BY DEF Bits
  <2>3. q \in Seq(Bit) /\ Len(q) = Len(p) + 1 /\ Len(p) <= n - 1 /\ Len(p) \in Nat
    BY <1>1, <2>1, <2>2, FirstBit
  <2> QED BY <2>3
<1>4. ASSUME NEW key \in Bits(n)
      PROVE  \E p \in Join(l, r) : Agrees(p, key) /\ \A q \in Join(l, r) : Agrees(q, key) => q = p
  <2> DEFINE rest == [i \in 1..(n - 1) |-> key[i + 1]]
  <2>1. rest \in Bits(n - 1)
    BY <1>2, <1>4, FirstBit, EmptySeq
  <2>2. key[1] \in Bit
    BY <1>4 DEF Bits, Bit
  <2>3. \A b \in Bit : \A p \in l \cup r :
           Agrees(<<b>> \o p, key) <=> b = key[1] /\ Agrees(p, rest)
    BY <1>1, FirstBit
  <2> HIDE DEF rest
  <2>4. CASE key[1] = 0
    <3>1. PICK p \in l : Agrees(p, rest) /\ \A q \in l : Agrees(q, rest) => q = p
      BY <2>1 DEF IsTree
    <3>2. <<0>> \o p \in Join(l, r) /\ Agrees(<<0>> \o p, key)
      BY <1>2, <2>3, <2>4, <3>1 DEF Join
    <3>3. ASSUME NEW q \in Join(l, r), Agrees(q, key) PROVE q = <<0>> \o p
      BY <1>2, <2>3, <2>4, <3>1, <3>3 DEF Join
    <3> QED BY <3>2, <3>3
  <2>5. CASE key[1] = 1
    <3>1. PICK p \in r : Agrees(p, rest) /\ \A q \in r : Agrees(q, rest) => q = p
      BY <2>1 DEF IsTree
    <3>2. <<1>> \o p \in Join(l, r) /\ Agrees(<<1>> \o p, key)
      BY <1>2, <2>3, <2>5, <3>1 DEF Join
    <3>3. ASSUME NEW q \in Join(l, r), Agrees(q, key) PROVE q = <<1>> \o p
      BY <1>2, <2>3, <2>5, <3>1, <3>3 DEF Join
    <3> QED BY <3>2, <3>3
  <2> QED BY <2>2, <2>4, <2>5 DEF Bit
<1>5. IsFiniteSet(Join(l, r))
  <2>1. ASSUME NEW T, IsFiniteSet(T), NEW b PROVE IsFiniteSet({<<b>> \o p : p \in T})
    <3> DEFINE f == [p \in T |-> <<b>> \o p]
    <3>1. f \in Surjection(T, {<<b>> \o p : p \in T})
      BY DEF Surjection
    <3> QED BY <2>1, <3>1, FS_Surjection
  <2>2. IsFiniteSet(l) /\ IsFiniteSet(r)
    BY DEF IsTree
  <2>3. IsFiniteSet({<<0>> \o p : p \in l}) /\ IsFiniteSet({<<1>> \o p : p \in r})
    BY <2>1, <2>2
  <2> DEFINE L == {<<0>> \o p : p \in l}
             R == {<<1>> \o p : p \in r}
  <2>4. IsFiniteSet(L \cup R)
    <3>1. IsFiniteSet(L) /\ IsFiniteSet(R)
      BY <2>3
    <3> HIDE DEF L, R
    <3> QED BY <3>1, FS_Union
  <2> QED BY <2>4 DEF Join
<1> QED BY <1>3, <1>4, <1>5 DEF IsTree

\* The recursion of Trees.
Above(trees) == {{<<>>}} \cup {Join(l, r) : l \in trees, r \in trees}
TreesOf(trees, n) == IF n = 0 THEN {{<<>>}} ELSE Above(trees[n - 1])

\* It has a solution.
LEMMA TreesDefined == \A n \in 0..V6Bits : Trees[n] = TreesOf(Trees, n)
<1> DEFINE Upto(f, d) == \A n \in Nat : n < d => f[n] = TreesOf(f, n)
           T == {d \in Nat : ~\E f : Upto(f, d)}
<1>1. T = {}
  <2> SUFFICES ASSUME T # {} PROVE FALSE
    OBVIOUS
  <2>1. PICK m \in T : \A n \in T : m <= n
    <3>1. T \in SUBSET Nat
      OBVIOUS
    <3> HIDE DEF T
    <3> QED BY <3>1, LeastNatural
  <2>2. m \in Nat /\ ~\E f : Upto(f, m)
    OBVIOUS
  <2>3. m # 0
    <3>1. Upto(0, 0)
      OBVIOUS
    <3> QED BY <2>2, <3>1
  <2>4. m - 1 \in Nat /\ m - 1 \notin T
    BY <2>1, <2>2, <2>3
  <2>5. PICK f : Upto(f, m - 1)
    BY <2>4
  <2> DEFINE g == [n \in Nat |-> IF n < m - 1 THEN f[n] ELSE TreesOf(f, n)]
  <2>6. ASSUME NEW n \in Nat, n < m PROVE g[n] = TreesOf(g, n)
    <3>1. g[n] = TreesOf(f, n)
      BY <2>5
    <3>2. n # 0 => n - 1 \in Nat /\ n - 1 < m - 1
      BY <2>2, <2>6
    <3>3. n # 0 => g[n - 1] = f[n - 1]
      BY <3>2
    <3> HIDE DEF g
    <3> QED BY <3>1, <3>3 DEF TreesOf
  <2>7. Upto(g, m)
    BY <2>6
  <2> QED BY <2>2, <2>7
<1>2. V6Bits \in Nat /\ V6Bits + 1 \in Nat
  BY TreeAssumption DEF V6Bits
<1>3. PICK f : Upto(f, V6Bits + 1)
  BY <1>1, <1>2
<1> DEFINE g == [n \in 0..V6Bits |-> f[n]]
<1>4. ASSUME NEW n \in 0..V6Bits PROVE g[n] = TreesOf(g, n)
  <2>1. n \in Nat /\ n < V6Bits + 1
    BY <1>2
  <2>2. g[n] = TreesOf(f, n)
    BY <1>3, <2>1
  <2>3. n # 0 => n - 1 \in 0..V6Bits
    BY <1>2
  <2>4. n # 0 => g[n - 1] = f[n - 1]
    BY <2>3
  <2> HIDE DEF g
  <2> QED BY <2>2, <2>4 DEF TreesOf
<1>5. g = [n \in 0..V6Bits |-> TreesOf(g, n)]
  <2>1. g = [n \in 0..V6Bits |-> g[n]]
    OBVIOUS
  <2> HIDE DEF g
  <2> QED BY <1>4, <2>1
<1> HIDE DEF g
<1>6. \E h : h = [n \in 0..V6Bits |-> TreesOf(h, n)]
  BY <1>5
<1>7. Trees = CHOOSE h : h = [n \in 0..V6Bits |-> TreesOf(h, n)]
  BY DEF Trees, TreesOf, Above, Join
<1>8. Trees = [n \in 0..V6Bits |-> TreesOf(Trees, n)]
  BY <1>6, <1>7
<1> QED BY <1>8

\* Whatever is in it, a tree is one.
LEMMA TreesAreTrees ==
  ASSUME NEW n \in 0..V6Bits, NEW T \in Trees[n]
  PROVE  IsTree(T, n)
<1> DEFINE B == {m \in Nat : m <= V6Bits /\ ~\A U \in Trees[m] : IsTree(U, m)}
<1>0. V6Bits \in Nat
  BY TreeAssumption DEF V6Bits
<1>1. B = {}
  <2> SUFFICES ASSUME B # {} PROVE FALSE
    OBVIOUS
  <2>1. PICK m \in B : \A k \in B : m <= k
    <3>1. B \in SUBSET Nat
      OBVIOUS
    <3> HIDE DEF B
    <3> QED BY <3>1, LeastNatural
  <2>2. m \in Nat /\ m \in 0..V6Bits
    BY <1>0
  <2>3. m # 0 => \A U \in Trees[m - 1] : IsTree(U, m - 1)
    BY <1>0, <2>1, <2>2
  <2>4. ASSUME NEW U \in Trees[m] PROVE IsTree(U, m)
    <3>1. U \in TreesOf(Trees, m)
      BY <2>2, TreesDefined
    <3>2. CASE U = {<<>>}
      BY <2>2, <3>2, NoNode
    <3>3. CASE U # {<<>>}
      <4>1. m # 0
        BY <3>1, <3>3 DEF TreesOf, Above
      <4>2. PICK l \in Trees[m - 1], r \in Trees[m - 1] : U = Join(l, r)
        BY <3>1, <3>3 DEF TreesOf, Above
      <4> QED BY <2>2, <2>3, <4>1, <4>2, JoinIsTree
    <3> QED BY <3>2, <3>3
  <2> QED BY <2>1, <2>4
<1> QED BY <1>0, <1>1

-----------------------------------------------------------------------------
(* The database                                                            *)

Database ==
  /\ version \in {4, 6}
  /\ Leaves \in Trees[Width(version)]
  /\ ip \in Addresses
  /\ query \in Functions => ip \in Bits(V4Bits)

\* Every initial state is one of an open database.
LEMMA InitDatabase == Init => Database
<1> SUFFICES ASSUME Init PROVE Database
  OBVIOUS
<1>1. version \in {4, 6}
  BY DEF Init
<1>2. [i \in 1..V4Bits |-> 0] \in Bits(V4Bits)
  BY DEF Bits
<1>3. Bits(V4Bits) \subseteq Addresses
  BY DEF Addresses
<1>4. CASE DemoDatabase
  <2>1. ip \in Bits(V4Bits)
    BY <1>2, <1>4 DEF DemoDatabase
  <2>2. PICK leaves \in Trees[Width(version)] : tree \in [leaves -> Data \cup {None}]
    BY <1>4 DEF DemoDatabase
  <2>3. Leaves = leaves
    BY <2>2 DEF Leaves
  <2> QED BY <1>1, <1>3, <2>1, <2>2, <2>3 DEF Database
<1>5. CASE query \in {"get_with_prefix_len", "metadata"} /\ AnyTree /\ ip \in Addresses
  <2>1. PICK leaves \in Trees[Width(version)] : tree = [p \in leaves |-> None]
    BY <1>5 DEF AnyTree
  <2>2. Leaves = leaves /\ query \notin Functions
    BY <1>5, <2>1 DEF Leaves, Functions, Slices
  <2> QED BY <1>1, <1>5, <2>1, <2>2 DEF Database
<1> QED BY <1>2, <1>3, <1>4, <1>5 DEF Init

\* Nothing changes the database.
LEMMA SameDatabase == [Next]_vars => UNCHANGED <<db, record_size>>
<1> SUFFICES ASSUME [Next]_vars PROVE UNCHANGED <<db, record_size>>
  OBVIOUS
<1>1. CASE PrefixNext /\ UNCHANGED <<metadata, demo>>
  BY <1>1 DEF PrefixNext, Walk, Network, Convert, metadata
<1>2. CASE MetadataNext /\ UNCHANGED <<walk, demo>>
  BY <1>2 DEF MetadataNext, FromMaxmind, SearchTreeSize
<1>3. CASE DemoNext /\ UNCHANGED <<walk, metadata>>
  BY <1>3 DEF DemoNext, Slice, CountByCountry, Filter, Statistics, Search, Exhausted, Raises,
     Take, metadata
<1>4. CASE UNCHANGED vars
  BY <1>4 DEF vars, metadata
<1> QED BY <1>1, <1>2, <1>3, <1>4 DEF Next

\* A state with the same database is another.
LEMMA StillDatabase ==
  ASSUME Database, UNCHANGED db
  PROVE  Database'
BY DEF Database, db, Leaves, Addresses, Width

\* The tree of an open database, and the key of an address.
LEMMA TheTree ==
  ASSUME Database
  PROVE  /\ Width(version) \in Nat \ {0} /\ IsTree(Leaves, Width(version))
         /\ \A a \in Addresses : Key(a) \in Bits(Width(version))
<1>1. /\ V4Bits \in Nat \ {0} /\ Padding \in Nat \ {0} /\ V6Bits = Padding + V4Bits
      /\ V6Bits \in Nat \ {0} /\ V4Bits <= V6Bits /\ V6Bits # V4Bits
  BY TreeAssumption DEF V6Bits
<1>2. Width(version) \in 0..V6Bits /\ Width(version) \in Nat \ {0}
  BY <1>1 DEF Database, Width
<1>3. IsTree(Leaves, Width(version))
  BY <1>2, TreesAreTrees DEF Database
<1>4. \A n \in Nat : \A a \in Bits(n) : a \in Seq({0, 1}) /\ Len(a) = n
  <2>1. ASSUME NEW n \in Nat, NEW a \in Bits(n) PROVE a \in Seq({0, 1}) /\ Len(a) = n
    <3>1. a \in Seq({0, 1})
      BY <2>1, SeqDef DEF Bits
    <3>2. DOMAIN a = 1..n
      BY DEF Bits
    <3> QED BY <3>1, <3>2, LenProperties
  <2> QED BY <2>1
<1>5. ASSUME NEW a \in Addresses PROVE Key(a) \in Bits(Width(version))
  <2>1. CASE version = 6 /\ a \in Bits(V4Bits)
    <3>1. Family(a) = 4 /\ a \in Seq({0, 1}) /\ Len(a) = V4Bits
      BY <1>1, <1>4, <2>1 DEF Family
    <3>2. Zeros \in Bits(Padding)
      BY DEF Zeros, Bits
    <3>3. Zeros \in Seq({0, 1}) /\ Len(Zeros) = Padding
      BY <1>1, <1>4, <3>2
    <3>4. Zeros \o a \in Seq({0, 1}) /\ Len(Zeros \o a) = V6Bits
      BY <1>1, <3>1, <3>3, ConcatProperties
    <3>5. Zeros \o a \in [1..V6Bits -> {0, 1}]
      BY <3>4, LenProperties
    <3> QED BY <2>1, <3>1, <3>5 DEF Key, Width, Bits
  <2>2. CASE version = 4 /\ a \in Bits(V4Bits)
    BY <2>2 DEF Key, Width
  <2>3. CASE version = 6 /\ a \in Bits(V6Bits)
    <3>1. Family(a) # 4
      BY <1>1, <1>4, <2>3 DEF Family
    <3> QED BY <2>3, <3>1 DEF Key, Width
  <2> QED BY <2>1, <2>2, <2>3 DEF Addresses, Database
<1> QED BY <1>2, <1>3, <1>5

\* The leaf that answers an address is the one that agrees with it.
LEMMA LeafIs ==
  ASSUME Database, NEW a \in Addresses
  PROVE  /\ LeafOf(a) \in Leaves /\ Agrees(LeafOf(a), Key(a))
         /\ \A p \in Leaves : Agrees(p, Key(a)) => LeafOf(a) = p
<1>1. PICK p \in Leaves : Agrees(p, Key(a)) /\ \A q \in Leaves : Agrees(q, Key(a)) => q = p
  BY TheTree DEF IsTree
<1>2. LeafOf(a) \in Leaves /\ Agrees(LeafOf(a), Key(a))
  BY <1>1 DEF LeafOf
<1> QED BY <1>1, <1>2

-----------------------------------------------------------------------------
(* get_with_prefix_len()                                                   *)

WalkInv ==
  /\ depth \in Nat
  /\ network # NoNetwork =>
       /\ Asked /\ Path \in Leaves
       /\ \/ network = [family |-> version, prefix |-> depth]
          \/ /\ Family(ip) = 4 /\ version = 6 /\ depth >= Padding
             /\ network = [family |-> 4, prefix |-> depth - Padding]
  /\ reported # Pending =>
       /\ network # NoNetwork
       /\ reported = IF Family(ip) = 4 /\ version = 6
                      THEN IF depth >= Padding THEN depth - Padding ELSE 0
                      ELSE depth

\* The walk stops at a leaf, and the reported length is a function of its depth.
LEMMA WalkStep ==
  ASSUME Database, WalkInv, [Next]_vars
  PROVE  WalkInv'
<1>1. UNCHANGED db
  BY SameDatabase
<1>2. /\ query' = query /\ version' = version /\ tree' = tree /\ ip' = ip
      /\ Leaves' = Leaves /\ Asked' = Asked /\ Key(ip)' = Key(ip)
  BY <1>1 DEF db, Leaves, Asked, Key, Zeros, Family
<1>3. CASE Walk
  <2>1. depth' = depth + 1 /\ network' = network /\ reported' = reported /\ network = NoNetwork
    BY <1>3 DEF Walk, WalkInv
  <2> QED BY <2>1 DEF WalkInv
<1>4. CASE Network
  <2>1. /\ Asked /\ Path \in Leaves /\ network = NoNetwork
        /\ depth' = depth /\ reported' = reported /\ Path' = Path
    BY <1>2, <1>4 DEF Network, Path
  <2>2. reported' = Pending
    BY <2>1 DEF WalkInv
  <2> QED BY <1>2, <1>4, <2>1, <2>2 DEF Network, WalkInv, Family
<1>5. CASE Convert
  <2>1. network # NoNetwork /\ depth' = depth /\ network' = network /\ Path' = Path
    BY <1>2, <1>5 DEF Convert, Path
  <2>2. reported' = IF Family(ip) = 4 /\ network.family = 6
                    THEN IF network.prefix >= Padding THEN network.prefix - Padding ELSE 0
                    ELSE network.prefix
    BY <1>5 DEF Convert
  <2>3. CASE network = [family |-> version, prefix |-> depth]
    <3>1. network.family = version /\ network.prefix = depth
      BY <2>3
    <3> QED BY <1>2, <2>1, <2>2, <3>1 DEF WalkInv, Family
  <2>4. CASE /\ Family(ip) = 4 /\ version = 6 /\ depth >= Padding
             /\ network = [family |-> 4, prefix |-> depth - Padding]
    <3>1. network.family = 4 /\ network.prefix = depth - Padding
      BY <2>4
    <3> QED BY <1>2, <2>1, <2>2, <2>4, <3>1 DEF WalkInv, Family
  <2> QED BY <2>1, <2>3, <2>4 DEF WalkInv
<1>6. CASE UNCHANGED walk
  BY <1>2, <1>6 DEF walk, WalkInv, Path, Family
<1> QED BY <1>3, <1>4, <1>5, <1>6 DEF Next, PrefixNext, vars

\* What is reported is the set of addresses whose keys begin with the path of the leaf.
LEMMA WalkIsRight ==
  ASSUME Database, WalkInv
  PROVE  PrefixIsLeaf
<1> SUFFICES ASSUME reported # Pending, NEW a \in Bits(Len(ip))
             PROVE  SubSeq(a, 1, reported) = SubSeq(ip, 1, reported) <=> LeafOf(a) = LeafOf(ip)
  BY DEF PrefixIsLeaf
<1>0. /\ V4Bits \in Nat \ {0} /\ Padding \in Nat \ {0} /\ V6Bits = Padding + V4Bits
      /\ V6Bits \in Nat /\ V6Bits # V4Bits
  BY TreeAssumption DEF V6Bits
<1>1. /\ Path \in Leaves /\ depth \in Nat
      /\ reported = IF Family(ip) = 4 /\ version = 6
                     THEN IF depth >= Padding THEN depth - Padding ELSE 0
                     ELSE depth
  BY DEF WalkInv
<1>2. \A n \in Nat : \A b \in Bits(n) : b \in Seq({0, 1}) /\ Len(b) = n
  <2>1. ASSUME NEW n \in Nat, NEW b \in Bits(n) PROVE b \in Seq({0, 1}) /\ Len(b) = n
    <3>1. b \in Seq({0, 1}) /\ DOMAIN b = 1..n
      BY <2>1, SeqDef DEF Bits
    <3> QED BY <3>1, LenProperties
  <2> QED BY <2>1
<1>3. /\ a \in Addresses /\ Len(a) = Len(ip) /\ ip \in Addresses /\ Family(a) = Family(ip)
      /\ a \in Seq({0, 1}) /\ ip \in Seq({0, 1})
  <2>1. ip \in Addresses /\ (ip \in Bits(V4Bits) \/ ip \in Bits(V6Bits))
    BY DEF Database, Addresses
  <2>2. Len(ip) = V4Bits \/ Len(ip) = V6Bits
    BY <1>0, <1>2, <2>1
  <2>3. Len(ip) \in Nat /\ ip \in Bits(Len(ip)) /\ ip \in Seq({0, 1})
    BY <1>0, <1>2, <2>1
  <2>4. Len(a) = Len(ip) /\ a \in Seq({0, 1})
    BY <1>2, <2>3
  <2>5. a \in Addresses
    <3>1. CASE ip \in Bits(V4Bits)
      BY <1>0, <1>2, <3>1 DEF Addresses
    <3>2. CASE ip \notin Bits(V4Bits)
      BY <1>0, <1>2, <2>1, <3>2 DEF Addresses
    <3> QED BY <3>1, <3>2
  <2> QED BY <2>1, <2>3, <2>4, <2>5 DEF Family
<1>4. Len(Path) = depth /\ \A i \in 1..depth : Path[i] = Key(ip)[i]
  BY <1>1, PrefixIs DEF Path
<1>5. Path \in Seq(Bit)
  BY <1>1, TheTree DEF IsTree
<1>6. Agrees(Path, Key(ip))
  BY <1>4, <1>5, AgreesIs
<1>7. LeafOf(ip) = Path
  BY <1>1, <1>3, <1>6, LeafIs
<1>8. LeafOf(a) = LeafOf(ip) <=> Agrees(Path, Key(a))
  BY <1>1, <1>3, <1>7, LeafIs
<1>9. LeafOf(a) = LeafOf(ip) <=> \A i \in 1..depth : Key(a)[i] = Key(ip)[i]
  BY <1>4, <1>5, <1>8, AgreesIs
<1>10. CASE Family(ip) = 4 /\ version = 6
  <2>1. Zeros \in Seq({0, 1}) /\ Len(Zeros) = Padding /\ \A i \in 1..Padding : Zeros[i] = 0
    <3>1. Zeros \in Bits(Padding)
      BY DEF Zeros, Bits
    <3> QED BY <1>0, <1>2, <3>1 DEF Zeros
  <2>2. Key(ip) = Zeros \o ip /\ Key(a) = Zeros \o a
    BY <1>3, <1>10 DEF Key
  <2>3. ASSUME NEW i \in 1..(Padding + Len(ip))
        PROVE  Key(a)[i] = Key(ip)[i] <=> (i <= Padding \/ a[i - Padding] = ip[i - Padding])
    <3>1. (Zeros \o ip)[i] = IF i <= Padding THEN Zeros[i] ELSE ip[i - Padding]
      BY <1>3, <2>1, ConcatProperties
    <3>2. (Zeros \o a)[i] = IF i <= Padding THEN Zeros[i] ELSE a[i - Padding]
      BY <1>3, <2>1, ConcatProperties
    <3> QED BY <2>2, <3>1, <3>2
  <2>4. depth <= Padding + Len(ip) /\ Len(ip) \in Nat
    <3>1. Len(Path) <= V6Bits
      BY <1>1, <1>10, TheTree DEF IsTree, Width
    <3>2. Len(ip) = V4Bits
      BY <1>10 DEF Family
    <3> QED BY <1>0, <1>4, <3>1, <3>2
  <2>5. \A i \in 1..depth : i \in 1..(Padding + Len(ip))
    BY <1>0, <1>1, <2>4
  <2>6. CASE depth >= Padding
    <3>1. PICK m \in Nat : m = depth - Padding /\ reported = m
      BY <1>0, <1>1, <1>10, <2>6
    <3>2. SubSeq(a, 1, m) = SubSeq(ip, 1, m) <=> \A i \in 1..m : a[i] = ip[i]
      BY PrefixIs
    <3>3. ASSUME \A i \in 1..m : a[i] = ip[i], NEW i \in 1..depth PROVE Key(a)[i] = Key(ip)[i]
      <4>1. i <= Padding \/ i - Padding \in 1..m
        BY <1>0, <1>1, <3>1
      <4> QED BY <2>3, <2>5, <3>3, <4>1
    <3>4. ASSUME \A i \in 1..depth : Key(a)[i] = Key(ip)[i], NEW i \in 1..m PROVE a[i] = ip[i]
      <4>1. PICK j \in 1..depth : j = i + Padding /\ ~(j <= Padding) /\ j - Padding = i
        BY <1>0, <1>1, <3>1
      <4> QED BY <2>3, <2>5, <3>4, <4>1
    <3> QED BY <1>9, <3>1, <3>2, <3>3, <3>4
  <2>7. CASE ~(depth >= Padding)
    <3>1. reported = 0
      BY <1>1, <1>10, <2>7
    <3>2. SubSeq(a, 1, 0) = SubSeq(ip, 1, 0)
      BY PrefixIs
    <3>3. \A i \in 1..depth : i <= Padding
      BY <1>0, <1>1, <2>7
    <3>4. \A i \in 1..depth : Key(a)[i] = Key(ip)[i]
      BY <2>3, <2>5, <3>3
    <3> QED BY <1>9, <3>1, <3>2, <3>4
  <2> QED BY <2>6, <2>7
<1>11. CASE ~(Family(ip) = 4 /\ version = 6)
  <2>1. Key(ip) = ip /\ Key(a) = a /\ reported = depth
    BY <1>1, <1>3, <1>11 DEF Key
  <2> QED BY <1>1, <1>9, <2>1, PrefixIs
<1> QED BY <1>10, <1>11

\* For every tree, of any depth, and every address: the reported prefix length is that of
\* the network whose addresses the same leaf answers.
THEOREM PrefixOfLeaf == Spec => []PrefixIsLeaf
<1>1. Init => Database /\ WalkInv
  <2>1. Init => WalkInv
    BY DEF Init, PrefixInit, WalkInv
  <2> QED BY <2>1, InitDatabase
<1>2. Database /\ WalkInv /\ [Next]_vars => Database' /\ WalkInv'
  BY SameDatabase, StillDatabase, WalkStep
<1>3. Database /\ WalkInv => PrefixIsLeaf
  BY WalkIsRight
<1> QED BY <1>1, <1>2, <1>3, PTL DEF Spec

-----------------------------------------------------------------------------
(* Metadata                                                                *)

MetaInv ==
  /\ meta # NoMetadata =>
       /\ query = "metadata"
       /\ meta = [record_size |-> record_size, node_count |-> NodeCount]
  /\ query = "metadata" => record_size \in RecordSize
  /\ size # NotAsked =>
       meta # NoMetadata /\ size = (NodeCount * (record_size \div 4)) % Word

\* The copy is that of the database, and the size is computed from the copy.
LEMMA MetaStep ==
  ASSUME Database, MetaInv, [Next]_vars
  PROVE  MetaInv'
<1>1. query' = query /\ record_size' = record_size /\ NodeCount' = NodeCount
  BY SameDatabase DEF db, NodeCount, Leaves
<1>2. CASE FromMaxmind
  BY <1>1, <1>2 DEF FromMaxmind, MetaInv
<1>3. CASE SearchTreeSize
  <2>1. meta = [record_size |-> record_size, node_count |-> NodeCount] /\ meta # NoMetadata
    BY <1>3 DEF SearchTreeSize, MetaInv
  <2>2. meta.record_size = record_size /\ meta.node_count = NodeCount
    BY <2>1
  <2>3. size' = (NodeCount * (record_size \div 4)) % Word /\ meta' = meta
    BY <1>3, <2>2 DEF SearchTreeSize, NodeByteSize
  <2> QED BY <1>1, <2>1, <2>3 DEF MetaInv
<1>4. CASE UNCHANGED metadata
  BY <1>1, <1>4 DEF metadata, MetaInv
<1> QED BY <1>2, <1>3, <1>4 DEF Next, MetadataNext, vars

\* Below the limit the product does not wrap.
LEMMA SizeIsRight ==
  ASSUME Database, MetaInv
  PROVE  ExactBelowLimit
<1> SUFFICES ASSUME size # NotAsked, TreeBits < 8 * Word PROVE 8 * size = TreeBits
  BY DEF ExactBelowLimit
<1>1. record_size \in {24, 28, 32} /\ size = (NodeCount * (record_size \div 4)) % Word
  BY DEF MetaInv, RecordSize
<1>2. NodeCount \in Nat
  <2>1. IsFiniteSet(Leaves) /\ Leaves # {}
    <3>1. LeafOf(ip) \in Leaves
      BY LeafIs DEF Database
    <3> QED BY <3>1, TheTree DEF IsTree
  <2>2. Cardinality(Leaves) \in Nat /\ Cardinality(Leaves) # 0
    BY <2>1, FS_CardinalityType, FS_EmptySet
  <2> QED BY <2>2 DEF NodeCount
<1>3. PICK bytes \in Nat : bytes = NodeCount * (record_size \div 4) /\ 8 * bytes = TreeBits
  <2>1. CASE record_size = 24
    <3>1. record_size \div 4 = 6
      BY <2>1
    <3> QED BY <1>2, <2>1, <3>1 DEF TreeBits
  <2>2. CASE record_size = 28
    <3>1. record_size \div 4 = 7
      BY <2>2
    <3> QED BY <1>2, <2>2, <3>1 DEF TreeBits
  <2>3. CASE record_size = 32
    <3>1. record_size \div 4 = 8
      BY <2>3
    <3> QED BY <1>2, <2>3, <3>1 DEF TreeBits
  <2> QED BY <1>1, <2>1, <2>2, <2>3
<1>4. Word \in Nat \ {0}
  BY WordAssumption
<1>5. bytes < Word
  BY <1>3, <1>4
<1>6. bytes % Word = bytes
  BY <1>4, <1>5
<1> QED BY <1>1, <1>3, <1>6

\* For every tree and record size: search_tree_size is the size of the tree, as long as
\* that has less than 2^32 bytes.
THEOREM SizeIsExact == Spec => []ExactBelowLimit
<1>1. Init => MetaInv
  BY DEF Init, MetadataInit, MetaInv
<1>2. Database /\ MetaInv /\ [Next]_vars => Database' /\ MetaInv'
  BY SameDatabase, StillDatabase, MetaStep
<1>3. Database /\ MetaInv => ExactBelowLimit
  BY SizeIsRight
<1> QED BY <1>1, <1>2, <1>3, InitDatabase, PTL DEF Spec

-----------------------------------------------------------------------------
(* The order of the networks                                               *)

\* No leaf is inside another: two of them differ in a bit, and the first such bit decides.
LEMMA LeavesDiffer ==
  ASSUME Database, NEW p \in Leaves, NEW q \in Leaves, p # q
  PROVE  Before(p, q) \/ Before(q, p)
<1>1. PICK W \in Nat : W = Width(version)
  BY TheTree
<1>2. /\ p \in Seq(Bit) /\ q \in Seq(Bit) /\ Len(p) \in 0..W /\ Len(q) \in 0..W
      /\ \A key \in Bits(W) : Agrees(p, key) /\ Agrees(q, key) => p = q
  BY <1>1, TheTree, LenProperties DEF IsTree
<1>3. /\ \A i \in 1..Len(p) : p[i] \in Bit
      /\ \A i \in 1..Len(q) : q[i] \in Bit
      /\ DOMAIN p = 1..Len(p) /\ DOMAIN q = 1..Len(q)
  BY <1>2, ElementOfSeq, LenProperties
<1> DEFINE D == {i \in DOMAIN p \cap DOMAIN q : p[i] # q[i]}
<1>4. D # {}
  <2> SUFFICES ASSUME \A i \in DOMAIN p \cap DOMAIN q : p[i] = q[i] PROVE FALSE
    OBVIOUS
  <2> DEFINE key == [i \in 1..W |-> IF i \in DOMAIN q THEN q[i] ELSE IF i \in DOMAIN p THEN p[i] ELSE 0]
  <2>1. key \in Bits(W)
    BY <1>3 DEF Bits, Bit
  <2>2. \A i \in 1..Len(p) : i \in 1..W /\ i \in DOMAIN p /\ p[i] = key[i]
    BY <1>2, <1>3
  <2>3. \A i \in 1..Len(q) : i \in 1..W /\ i \in DOMAIN q /\ q[i] = key[i]
    BY <1>2, <1>3
  <2> HIDE DEF key
  <2>4. Agrees(p, key) /\ Agrees(q, key)
    BY <1>2, <2>2, <2>3, AgreesIs
  <2> QED BY <1>2, <2>1, <2>4
<1>5. PICK k \in D : \A i \in D : k <= i
  <2>1. D \in SUBSET Nat
    BY <1>3
  <2> HIDE DEF D
  <2> QED BY <1>4, <2>1, LeastNatural
<1>6. k \in DOMAIN p \cap DOMAIN q /\ k \in Nat /\ p[k] # q[k] /\ p[k] \in Bit /\ q[k] \in Bit
  BY <1>3
<1>7. \A j \in 1..(k - 1) : j \in DOMAIN p \cap DOMAIN q /\ ~(k <= j)
  BY <1>2, <1>3, <1>6
<1>8. \A j \in 1..(k - 1) : p[j] = q[j]
  BY <1>5, <1>7
<1> QED BY <1>6, <1>8 DEF Before, Bit

\* The order is strict.
LEMMA BeforeIsStrict ==
  ASSUME NEW p \in Seq(Bit), NEW q \in Seq(Bit), NEW r \in Seq(Bit)
  PROVE  ~Before(p, p) /\ (Before(p, q) /\ Before(q, r) => Before(p, r))
<1>1. /\ \A i \in DOMAIN p : p[i] \in Int
      /\ \A i \in DOMAIN q : q[i] \in Int
      /\ \A i \in DOMAIN r : r[i] \in Int
      /\ DOMAIN p = 1..Len(p) /\ DOMAIN q = 1..Len(q) /\ DOMAIN r = 1..Len(r)
      /\ Len(p) \in Nat /\ Len(q) \in Nat /\ Len(r) \in Nat
  BY ElementOfSeq, LenProperties DEF Bit
<1>2. ~Before(p, p)
  BY <1>1 DEF Before
<1>3. ASSUME Before(p, q), Before(q, r) PROVE Before(p, r)
  <2>1. PICK k \in DOMAIN p \cap DOMAIN q : p[k] < q[k] /\ \A j \in 1..(k - 1) : p[j] = q[j]
    BY <1>3 DEF Before
  <2>2. PICK l \in DOMAIN q \cap DOMAIN r : q[l] < r[l] /\ \A j \in 1..(l - 1) : q[j] = r[j]
    BY <1>3 DEF Before
  <2>3. k \in Nat /\ l \in Nat /\ k > 0 /\ l > 0
    BY <1>1
  <2>4. CASE k < l
    <3>1. k \in 1..(l - 1) /\ k \in DOMAIN r /\ \A j \in 1..(k - 1) : j \in 1..(l - 1)
      BY <1>1, <2>3, <2>4
    <3>2. p[k] < r[k]
      BY <2>1, <2>2, <3>1
    <3> QED BY <2>1, <2>2, <3>1, <3>2 DEF Before
  <2>5. CASE l < k
    <3>1. l \in 1..(k - 1) /\ l \in DOMAIN p /\ \A j \in 1..(l - 1) : j \in 1..(k - 1)
      BY <1>1, <2>3, <2>5
    <3>2. p[l] < r[l]
      BY <2>1, <2>2, <3>1
    <3> QED BY <2>1, <2>2, <3>1, <3>2 DEF Before
  <2>6. CASE k = l
    <3>1. k \in DOMAIN p /\ k \in DOMAIN r /\ p[k] \in Int /\ q[k] \in Int /\ r[k] \in Int
      BY <1>1, <2>6
    <3>2. p[k] < r[k]
      BY <2>1, <2>2, <2>6, <3>1
    <3> QED BY <2>1, <2>2, <2>6, <3>1, <3>2 DEF Before
  <2> QED BY <2>3, <2>4, <2>5, <2>6
<1> QED BY <1>2, <1>3

Lower(p, S) == {q \in S : Before(q, p)}

\* In a set of leaves, a later one has a higher rank.
LEMMA RankGrows ==
  ASSUME Database, NEW S \in SUBSET Leaves, NEW p \in S, NEW q \in S
  PROVE  /\ IsFiniteSet(S) /\ Cardinality(S) \in Nat
         /\ Rank(p, S) \in 1..Cardinality(S)
         /\ Before(p, q) => Rank(p, S) < Rank(q, S)
         /\ p # q => Rank(p, S) # Rank(q, S)
<1>1. IsFiniteSet(Leaves) /\ \A x \in Leaves : x \in Seq(Bit)
  BY TheTree DEF IsTree
<1>2. IsFiniteSet(S) /\ Cardinality(S) \in Nat
  BY <1>1, FS_Subset, FS_CardinalityType
<1>3. ASSUME NEW x \in S
      PROVE  /\ IsFiniteSet(Lower(x, S)) /\ Cardinality(Lower(x, S)) \in Nat
             /\ Cardinality(Lower(x, S)) < Cardinality(S)
             /\ x \notin Lower(x, S)
  <2>1. Lower(x, S) \in SUBSET S
    BY DEF Lower
  <2>2. x \notin Lower(x, S)
    BY <1>1, BeforeIsStrict DEF Lower
  <2>3. Lower(x, S) # S
    BY <2>2
  <2>4. /\ IsFiniteSet(Lower(x, S)) /\ Cardinality(Lower(x, S)) <= Cardinality(S)
        /\ Cardinality(Lower(x, S)) # Cardinality(S)
    BY <1>2, <2>1, <2>3, FS_Subset
  <2>5. Cardinality(Lower(x, S)) \in Nat
    BY <2>4, FS_CardinalityType
  <2> QED BY <1>2, <2>2, <2>4, <2>5
<1>4. \A x : Rank(x, S) = Cardinality(Lower(x, S)) + 1
  BY DEF Rank, Lower
<1>5. Rank(p, S) \in 1..Cardinality(S)
  BY <1>2, <1>3, <1>4
<1>6. ASSUME NEW x \in S, NEW y \in S, Before(x, y) PROVE Rank(x, S) < Rank(y, S)
  <2>1. Lower(x, S) \in SUBSET Lower(y, S)
    BY <1>1, <1>6, BeforeIsStrict DEF Lower
  <2>2. x \in Lower(y, S) /\ x \notin Lower(x, S)
    BY <1>3, <1>6 DEF Lower
  <2>3. /\ Cardinality(Lower(x, S)) <= Cardinality(Lower(y, S))
        /\ Cardinality(Lower(x, S)) # Cardinality(Lower(y, S))
    <3>1. IsFiniteSet(Lower(y, S)) /\ Lower(x, S) # Lower(y, S)
      BY <1>3, <2>2
    <3> QED BY <2>1, <3>1, FS_Subset
  <2> QED BY <1>3, <1>4, <2>3
<1>7. ASSUME p # q PROVE Rank(p, S) # Rank(q, S)
  <2>1. Before(p, q) \/ Before(q, p)
    BY <1>7, LeavesDiffer
  <2>2. Rank(p, S) < Rank(q, S) \/ Rank(q, S) < Rank(p, S)
    BY <1>6, <2>1
  <2>3. Rank(p, S) \in Int /\ Rank(q, S) \in Int
    BY <1>3, <1>4
  <2> QED BY <2>2, <2>3
<1> QED BY <1>2, <1>5, <1>6, <1>7

\* InOrder() lists every member of a set of leaves once, in the order of the tree.
LEMMA InOrderIs ==
  ASSUME Database, NEW S \in SUBSET Leaves
  PROVE  /\ IsFiniteSet(S) /\ Cardinality(S) \in Nat
         /\ InOrder(S) \in Seq(S) /\ Len(InOrder(S)) = Cardinality(S)
         /\ \A p \in S : Rank(p, S) \in 1..Cardinality(S) /\ InOrder(S)[Rank(p, S)] = p
         /\ \A k \in 1..Cardinality(S) : InOrder(S)[k] \in S /\ Rank(InOrder(S)[k], S) = k
<1>1. IsFiniteSet(S) /\ Cardinality(S) \in Nat
  BY TheTree, FS_Subset, FS_CardinalityType DEF IsTree
<1>2. PICK n \in Nat : n = Cardinality(S)
  BY <1>1
<1> DEFINE f == [p \in S |-> Rank(p, S)]
<1>3. f \in Injection(S, 1..n)
  BY <1>2, RankGrows DEF Injection, IsInjective
<1>4. f \in Surjection(S, 1..n)
  <2>1. IsFiniteSet(1..n) /\ Cardinality(1..n) = n
    BY FS_Interval
  <2> HIDE DEF f
  <2> QED BY <1>2, <1>3, <2>1, FS_Injection
<1>5. \A k \in 1..n : \E p \in S : Rank(p, S) = k
  BY <1>4 DEF Surjection
<1>6. InOrder(S) = [k \in 1..n |-> CHOOSE p \in S : Rank(p, S) = k]
  BY <1>2 DEF InOrder
<1>7. \A k \in 1..n : InOrder(S)[k] \in S /\ Rank(InOrder(S)[k], S) = k
  BY <1>5, <1>6
<1>8. InOrder(S) \in [1..n -> S]
  BY <1>6, <1>7
<1>9. InOrder(S) \in Seq(S) /\ Len(InOrder(S)) = n
  <2>1. InOrder(S) \in Seq(S)
    BY <1>8, SeqDef
  <2>2. /\ DOMAIN InOrder(S) = 1..n /\ DOMAIN InOrder(S) = 1..Len(InOrder(S))
        /\ Len(InOrder(S)) \in Nat
    BY <1>8, <2>1, LenProperties
  <2> QED BY <2>1, <2>2
<1>10. ASSUME NEW p \in S PROVE Rank(p, S) \in 1..n /\ InOrder(S)[Rank(p, S)] = p
  <2>1. Rank(p, S) \in 1..n
    BY <1>2, RankGrows
  <2>2. InOrder(S)[Rank(p, S)] \in S /\ Rank(InOrder(S)[Rank(p, S)], S) = Rank(p, S)
    BY <1>7, <2>1
  <2> QED BY <2>1, <2>2, RankGrows
<1> QED BY <1>1, <1>2, <1>7, <1>9, <1>10

-----------------------------------------------------------------------------
(* The networks that have been taken                                       *)

\* The first m networks.
Seen(m) == {p \in Recorded : Rank(p, Recorded) \in 1..m}

\* What taking one more network adds to the part that is in a set.
LEMMA OneMore ==
  ASSUME Database, NEW m \in Nat, m < Len(Networks), NEW S
  PROVE  LET p == Networks[m + 1]
         IN  /\ p \in Recorded /\ p \in Leaves
             /\ Cardinality(Seen(m) \cap S) \in Nat
             /\ Cardinality(Seen(m + 1) \cap S) =
                  Cardinality(Seen(m) \cap S) + (IF p \in S THEN 1 ELSE 0)
             /\ Seen(m) = Lower(p, Recorded)
<1>1. Recorded \in SUBSET Leaves
  BY DEF Recorded
<1>2. PICK n \in Nat : n = Cardinality(Recorded) /\ n = Len(Networks) /\ m + 1 \in 1..n
  BY <1>1, InOrderIs DEF Networks
<1>3. PICK p \in Recorded : p = Networks[m + 1] /\ Rank(p, Recorded) = m + 1
  BY <1>1, <1>2, InOrderIs DEF Networks
<1>4. \A q \in Recorded : Rank(q, Recorded) \in 1..n /\ (Rank(q, Recorded) = m + 1 => q = p)
  BY <1>1, <1>2, <1>3, RankGrows
<1>5. Seen(m + 1) = Seen(m) \cup {p} /\ p \notin Seen(m)
  BY <1>3, <1>4 DEF Seen
<1>6. IsFiniteSet(Seen(m) \cap S) /\ Cardinality(Seen(m) \cap S) \in Nat
  <2>1. (Seen(m) \cap S) \in SUBSET Recorded
    BY DEF Seen
  <2> QED BY <1>1, <2>1, InOrderIs, FS_Subset, FS_CardinalityType
<1>7. Cardinality(Seen(m + 1) \cap S) = Cardinality(Seen(m) \cap S) + (IF p \in S THEN 1 ELSE 0)
  <2>1. CASE p \in S
    <3>1. Seen(m + 1) \cap S = (Seen(m) \cap S) \cup {p} /\ p \notin Seen(m) \cap S
      BY <1>5, <2>1
    <3> QED BY <1>6, <2>1, <3>1, FS_AddElement
  <2>2. CASE p \notin S
    <3>1. Seen(m + 1) \cap S = Seen(m) \cap S
      BY <1>5, <2>2
    <3>2. PICK c \in Nat : c = Cardinality(Seen(m) \cap S)
      BY <1>6
    <3>3. c + (IF p \in S THEN 1 ELSE 0) = c
      BY <2>2
    <3>4. Cardinality(Seen(m + 1) \cap S) = c
      BY <3>1, <3>2, Zenon
    <3> QED BY <3>2, <3>3, <3>4
  <2> QED BY <2>1, <2>2
<1>8. ASSUME NEW q \in Recorded PROVE q \in Seen(m) <=> Before(q, p)
  <2>1. PICK r \in 1..n : r = Rank(q, Recorded)
    BY <1>4
  <2>2. CASE q = p
    <3>1. ~Before(p, p)
      BY <1>1, TheTree, BeforeIsStrict DEF IsTree
    <3> QED BY <1>5, <2>2, <3>1
  <2>3. CASE q # p
    <3>1. /\ r # m + 1 /\ (Before(q, p) => r < m + 1) /\ (Before(p, q) => m + 1 < r)
          /\ Before(p, q) \/ Before(q, p)
      BY <1>1, <1>3, <2>1, <2>3, RankGrows, LeavesDiffer
    <3> QED BY <2>1, <3>1 DEF Seen
  <2> QED BY <2>2, <2>3
<1>9. Seen(m) = Lower(p, Recorded)
  BY <1>8 DEF Seen, Lower
<1> QED BY <1>1, <1>3, <1>6, <1>7, <1>9

\* None has been taken at first, and all of them in the end.
LEMMA NoneAndAll ==
  ASSUME Database
  PROVE  Seen(0) = {} /\ Seen(Len(Networks)) = Recorded /\ Len(Networks) \in Nat
<1>1. Recorded \in SUBSET Leaves
  BY DEF Recorded
<1>2. Cardinality(Recorded) \in Nat /\ Len(Networks) = Cardinality(Recorded)
  BY <1>1, InOrderIs DEF Networks
<1>3. \A p \in Recorded : Rank(p, Recorded) \in 1..Cardinality(Recorded)
  BY <1>1, RankGrows
<1> QED BY <1>2, <1>3 DEF Seen

Part(m, S) == Cardinality(Seen(m) \cap S)
Kind4 == {p \in Recorded : IsIPv4(p)}

\* The codes (of countries, or of continents) of the first m networks.
Met(m, code) == {code[tree[p]] : p \in Seen(m)} \ {Unknown}

\* m networks have been taken, and the iterator has the others left.
Position(m) ==
  /\ m \in 0..Len(Networks)
  /\ todo \in Seq(Recorded) /\ Len(todo) = Len(Networks) - m
  /\ \A k \in 1..Len(todo) : todo[k] = Networks[m + k]

\* What depends on the database alone stays as it is.
LEMMA SameNetworks ==
  ASSUME UNCHANGED db
  PROVE  /\ query' = query /\ Leaves' = Leaves /\ Recorded' = Recorded /\ Networks' = Networks
         /\ \A m : Seen(m)' = Seen(m)
         /\ \A code : Of(code)' = Of(code)
         /\ Kind4' = Kind4 /\ LeafOf(ip)' = LeafOf(ip) /\ \A p : IsIPv4(p)' = IsIPv4(p)
         /\ \A m, code : Met(m, code)' = Met(m, code)
<1>1. /\ query' = query /\ version' = version /\ tree' = tree /\ ip' = ip
      /\ Leaves' = Leaves /\ Recorded' = Recorded
  BY DEF db, Leaves, Recorded
<1>2. Networks' = Networks /\ (\A m : Seen(m)' = Seen(m))
  BY <1>1 DEF Networks, Seen
<1>3. /\ (\A code : Of(code)' = Of(code)) /\ Kind4' = Kind4
      /\ \A p : IsIPv4(p)' = IsIPv4(p)
  BY <1>1 DEF Of, Kind4, IsIPv4
<1>4. LeafOf(ip)' = LeafOf(ip)
  BY <1>1 DEF LeafOf, Key
<1>5. \A m, code : Met(m, code)' = Met(m, code)
  BY <1>1, <1>2 DEF Met
<1> QED BY <1>1, <1>2, <1>3, <1>4, <1>5

\* A turn takes the first of the networks that are left.
LEMMA Turn ==
  ASSUME Database, NEW m, Position(m), todo # <<>>, todo' = Tail(todo), UNCHANGED db
  PROVE  /\ m \in Nat /\ m < Len(Networks) /\ Head(todo) = Networks[m + 1]
         /\ Position(m + 1)'
<1>1. PICK n \in Nat : n = Len(Networks)
  BY NoneAndAll
<1>2. m \in 0..n /\ todo \in Seq(Recorded) /\ Len(todo) = n - m
  BY <1>1 DEF Position
<1>3. PICK l \in Nat : l = Len(todo) /\ l # 0
  BY <1>2, EmptySeq
<1>4. /\ todo' \in Seq(Recorded) /\ Len(todo') = l - 1
      /\ \A k \in 1..(l - 1) : todo'[k] = todo[k + 1]
  BY <1>2, <1>3, HeadTailProperties
<1>5. m \in Nat /\ m < n /\ m + 1 \in 0..n /\ l - 1 = n - (m + 1)
  BY <1>2, <1>3
<1>6. Head(todo) = Networks[m + 1]
  <2>1. Head(todo) = todo[1] /\ 1 \in 1..l
    BY <1>3
  <2> QED BY <1>3, <2>1 DEF Position
<1>7. \A k \in 1..(l - 1) : todo'[k] = Networks[(m + 1) + k]
  <2> SUFFICES ASSUME NEW k \in 1..(l - 1) PROVE todo'[k] = Networks[(m + 1) + k]
    OBVIOUS
  <2>1. todo'[k] = todo[k + 1] /\ k + 1 \in 1..l /\ m + (k + 1) = (m + 1) + k
    BY <1>4, <1>5
  <2> QED BY <1>3, <2>1 DEF Position
<1>8. Position(m + 1)'
  BY <1>1, <1>4, <1>5, <1>7, SameNetworks DEF Position
<1> QED BY <1>1, <1>5, <1>6, <1>8

-----------------------------------------------------------------------------
(* The functions of the example, after m networks                          *)

SliceInv(m) ==
  query \in Slices =>
    /\ printed \in Seq(Recorded) /\ Len(printed) = m /\ m <= Limit
    /\ \A k \in 1..m : printed[k] = Networks[k]
    /\ phase = "over" => m = Len(Networks) \/ m = Limit

FilterInv(m) ==
  query = "filter_networks" =>
    /\ printed \in Seq(Recorded) /\ Len(printed) = Part(m, Of(US)) /\ Len(printed) <= Limit
    /\ \A k \in 1..Len(printed) : printed[k] = InOrder(Of(US))[k]
    /\ phase = "loop" => Len(printed) < Limit
    /\ phase = "over" =>
         \/ m = Len(Networks)
         \/ Len(printed) = Limit /\ m > 0 /\ printed[Len(printed)] = Networks[m]

CountInv(m) ==
  query = "count_networks_by_country" =>
    /\ \A code : Count(code) = Part(m, Of(code))
    /\ phase = "over" => m = Len(Networks)

StatisticsInv(m) ==
  query = "get_network_statistics" =>
    /\ total = m /\ ipv4 = Part(m, Kind4) /\ ipv6 = m - ipv4
    /\ countries = Met(m, Country) /\ continents = Met(m, Continent)
    /\ phase = "over" => m = Len(Networks)

Wanted(p) == p = LeafOf(ip) /\ IsIPv4(p)
SearchInv(m) ==
  query = "search_for_network" =>
    /\ phase = "loop" => printed = <<>> /\ \A k \in 1..m : ~Wanted(Networks[k])
    /\ phase = "over" =>
         \/ printed = <<>> /\ m = Len(Networks) /\ \A k \in 1..m : ~Wanted(Networks[k])
         \/ printed = <<LeafOf(ip)>> /\ LeafOf(ip) \in Recorded /\ Wanted(LeafOf(ip))

DemoInv(m) ==
  /\ Position(m)
  /\ SliceInv(m) /\ FilterInv(m) /\ CountInv(m) /\ StatisticsInv(m) /\ SearchInv(m)

\* Before the first turn.
LEMMA DemoStarts ==
  ASSUME Init, query \in Functions
  PROVE  DemoInv(0)
<1>1. /\ todo = Networks /\ phase = "loop" /\ printed = <<>> /\ counter = EmptyBag
      /\ ipv4 = 0 /\ ipv6 = 0 /\ total = 0 /\ countries = {} /\ continents = {}
  BY DEF Init, DemoInit
<1>2. Database
  BY InitDatabase
<1>3. PICK n \in Nat : n = Len(Networks) /\ Networks \in Seq(Recorded)
  <2>1. Recorded \in SUBSET Leaves
    BY DEF Recorded
  <2> QED BY <1>2, <2>1, InOrderIs, NoneAndAll DEF Networks
<1>4. Position(0)
  BY <1>1, <1>3 DEF Position
<1>5. \A S : Part(0, S) = 0
  <2>1. \A S : Seen(0) \cap S = {}
    BY <1>2, NoneAndAll
  <2> QED BY <2>1, FS_EmptySet DEF Part
<1>6. /\ \A code : Count(code) = 0
      /\ Met(0, Country) = {} /\ Met(0, Continent) = {}
  <2>1. \A code : Count(code) = 0
    BY <1>1 DEF Count, BagIn, BagToSet, EmptyBag, SetToBag
  <2> QED BY <1>2, <2>1, NoneAndAll DEF Met
<1>7. printed \in Seq(Recorded) /\ Len(printed) = 0
  BY <1>1, EmptySeq
<1>8. Limit \in Nat \ {0}
  BY DemoAssumption
<1>9. SliceInv(0) /\ FilterInv(0)
  BY <1>1, <1>5, <1>7, <1>8 DEF SliceInv, FilterInv
<1>10. CountInv(0) /\ StatisticsInv(0)
  BY <1>1, <1>5, <1>6 DEF CountInv, StatisticsInv
<1>11. SearchInv(0)
  BY <1>1 DEF SearchInv
<1> QED BY <1>4, <1>9, <1>10, <1>11 DEF DemoInv

\* A network of the search contains the address if get() finds it there and it is a network
\* of IPv4 addresses, which it is unless it lies above their node.
LEMMA ContainsIs ==
  ASSUME Database, query \in Functions
  PROVE  /\ \A p \in Leaves : ContainsAddress(p, ip) <=> Wanted(p)
         /\ IsIPv4(LeafOf(ip)) <=> version = 4 \/ Len(LeafOf(ip)) >= Padding
<1>1. ip \in Bits(V4Bits) /\ ip \in Addresses /\ version \in {4, 6}
  BY DEF Database
<1>2. \A p \in Leaves : ContainsAddress(p, ip) <=> Wanted(p)
  BY <1>1, LeafIs DEF ContainsAddress, Wanted
<1>3. CASE version = 4
  BY <1>2, <1>3 DEF IsIPv4
<1>4. CASE version = 6
  <2> DEFINE leaf == LeafOf(ip)
  <2>1. leaf \in Leaves /\ Agrees(leaf, Key(ip))
    BY <1>1, LeafIs
  <2> HIDE DEF leaf
  <2>2. leaf \in Seq(Bit) /\ Zeros \in Seq(Bit) /\ ip \in Seq(Bit)
    <3>1. leaf \in Seq(Bit)
      BY <2>1, TheTree DEF IsTree
    <3>2. Zeros \in Seq(Bit)
      BY TreeAssumption, SeqDef DEF Zeros, Bit
    <3>3. ip \in Seq(Bit)
      BY <1>1, TreeAssumption, SeqDef DEF Bits, Bit
    <3> QED BY <3>1, <3>2, <3>3
  <2>3. Padding \in Nat /\ Len(Zeros) = Padding /\ Len(ip) = V4Bits /\ V4Bits \in Nat
    <3>1. DOMAIN Zeros = 1..Padding /\ DOMAIN ip = 1..V4Bits
      BY <1>1 DEF Zeros, Bits
    <3> QED BY <2>2, <3>1, TreeAssumption, LenProperties
  <2>4. Key(ip) = Zeros \o ip
    BY <1>4, <2>3 DEF Key, Family
  <2>5. \A i \in 1..Padding : Key(ip)[i] = Zeros[i]
    <3>1. \A i \in 1..Padding : i \in 1..(Padding + V4Bits) /\ i <= Padding
      BY <2>3
    <3> QED BY <2>2, <2>3, <2>4, <3>1, ConcatProperties
  <2>6. PICK n \in Nat : n = Len(leaf)
    BY <2>2, LenProperties
  <2>7. \A i \in 1..n : leaf[i] = Key(ip)[i]
    BY <2>1, <2>2, <2>6, AgreesIs
  <2>8. ASSUME n >= Padding PROVE Agrees(Zeros, leaf)
    <3>1. \A i \in 1..Padding : i \in 1..n /\ Zeros[i] = leaf[i]
      BY <2>3, <2>5, <2>6, <2>7, <2>8
    <3> QED BY <2>2, <2>3, <3>1, AgreesIs
  <2>9. IsIPv4(leaf) <=> Len(leaf) >= Padding
    BY <1>4, <2>6, <2>8 DEF IsIPv4
  <2> QED BY <1>2, <1>4, <2>9 DEF leaf
<1> QED BY <1>1, <1>3, <1>4

\* One more code in the bag.
LEMMA Counted ==
  ASSUME NEW r, counter' = counter (+) SetToBag({r}), \A code : Count(code) \in Nat
  PROVE  \A code : Count(code)' = Count(code) + (IF code = r THEN 1 ELSE 0)
<1> SUFFICES ASSUME NEW code
             PROVE  Count(code)' = Count(code) + (IF code = r THEN 1 ELSE 0)
  OBVIOUS
<1>1. /\ Count(code)' = IF code \in DOMAIN counter' THEN counter'[code] ELSE 0
      /\ Count(code) = IF code \in DOMAIN counter THEN counter[code] ELSE 0
      /\ Count(code) \in Nat
  BY DEF Count, BagIn, BagToSet
<1>2. counter' = [e \in DOMAIN counter \cup {r} |->
                    (IF e \in DOMAIN counter THEN counter[e] ELSE 0)
                  + (IF e \in {r} THEN 1 ELSE 0)]
  BY DEF (+), SetToBag
<1>3. CASE code = r
  <2>1. code \in DOMAIN counter' /\ counter'[code] = Count(code) + 1
    BY <1>1, <1>2, <1>3
  <2> QED BY <1>1, <1>3, <2>1
<1>4. CASE code # r
  <2>1. code \in DOMAIN counter' <=> code \in DOMAIN counter
    BY <1>2, <1>4
  <2>2. code \in DOMAIN counter => counter'[code] = counter[code] + 0
    BY <1>2, <1>4
  <2> QED BY <1>1, <1>4, <2>1, <2>2
<1> QED BY <1>3, <1>4

\* What every turn does.
LEMMA Taken ==
  ASSUME Database, NEW m, Position(m), NEW f, Take(f)
  PROVE  /\ query \in f /\ phase = "loop" /\ m \in Nat /\ m < Len(Networks)
         /\ Len(Networks) \in Nat /\ ~Stops
         /\ Head(todo) = Networks[m + 1] /\ Head(todo) \in Recorded /\ Head(todo) \in Leaves
         /\ UNCHANGED db /\ Position(m + 1)'
         /\ \A S : /\ Part(m, S) \in Nat
                   /\ Part(m + 1, S) = Part(m, S) + (IF Head(todo) \in S THEN 1 ELSE 0)
<1>1. /\ query \in f /\ phase = "loop" /\ ~Stops /\ todo # <<>>
      /\ todo' = Tail(todo) /\ UNCHANGED db
  BY DEF Take, Stops
<1>2. /\ m \in Nat /\ m < Len(Networks) /\ Head(todo) = Networks[m + 1]
      /\ Position(m + 1)'
  BY <1>1, Turn
<1>3. Head(todo) \in Recorded /\ Head(todo) \in Leaves
  BY <1>2, OneMore
<1>4. \A S : /\ Part(m, S) \in Nat
             /\ Part(m + 1, S) = Part(m, S) + (IF Head(todo) \in S THEN 1 ELSE 0)
  BY <1>2, OneMore DEF Part
<1> QED BY <1>1, <1>2, <1>3, <1>4, NoneAndAll

\* A slice prints what it takes and stops at the limit.
LEMMA SliceStep ==
  ASSUME Database, NEW m, Position(m), SliceInv(m), Slice
  PROVE  Position(m + 1)' /\ SliceInv(m + 1)'
<1>1. /\ query \in Slices /\ m \in Nat /\ Head(todo) = Networks[m + 1]
      /\ Head(todo) \in Recorded /\ UNCHANGED db /\ Position(m + 1)' /\ ~Stops
      /\ phase = "loop" /\ phase' = phase /\ printed' = Append(printed, Head(todo))
  BY Taken DEF Slice, Write
<1>2. /\ printed \in Seq(Recorded) /\ Len(printed) = m /\ m <= Limit
      /\ \A k \in 1..m : printed[k] = Networks[k]
  BY <1>1 DEF SliceInv
<1>3. Limit \in Nat /\ m # Limit
  BY <1>1, <1>2, DemoAssumption DEF Stops
<1>4. /\ printed' \in Seq(Recorded) /\ Len(printed') = m + 1
      /\ (\A k \in 1..m : printed'[k] = printed[k]) /\ printed'[m + 1] = Head(todo)
  BY <1>1, <1>2, AppendProperties
<1>5. \A k \in 1..(m + 1) : k \in 1..m \/ k = m + 1
  BY <1>1
<1>6. \A k \in 1..(m + 1) : printed'[k] = Networks[k]
  BY <1>1, <1>2, <1>4, <1>5
<1>7. m + 1 <= Limit
  BY <1>1, <1>2, <1>3
<1>8. /\ Recorded' = Recorded /\ Networks' = Networks /\ query' = query
  BY <1>1, SameNetworks
<1> QED BY <1>1, <1>4, <1>6, <1>7, <1>8 DEF SliceInv

\* A count by country counts the country of what is taken.
LEMMA CountStep ==
  ASSUME Database, NEW m, Position(m), CountInv(m), CountByCountry
  PROVE  Position(m + 1)' /\ CountInv(m + 1)'
<1>1. /\ query = "count_networks_by_country" /\ Head(todo) \in Recorded
      /\ UNCHANGED db /\ Position(m + 1)' /\ phase = "loop" /\ phase' = phase
      /\ counter' = counter (+) SetToBag({CountryCode})
      /\ \A S : /\ Part(m, S) \in Nat
                /\ Part(m + 1, S) = Part(m, S) + (IF Head(todo) \in S THEN 1 ELSE 0)
  BY Taken DEF CountByCountry
<1>2. \A code : Count(code) = Part(m, Of(code)) /\ Count(code) \in Nat
  BY <1>1 DEF CountInv
<1>3. \A code : Count(code)' = Count(code) + (IF code = CountryCode THEN 1 ELSE 0)
  BY <1>1, <1>2, Counted
<1>4. \A code : Head(todo) \in Of(code) <=> code = CountryCode
  BY <1>1 DEF Of, CountryCode
<1>5. \A code : Count(code)' = Part(m + 1, Of(code))
  BY <1>1, <1>2, <1>3, <1>4
<1>6. (\A code : Part(m + 1, Of(code))' = Part(m + 1, Of(code))) /\ query' = query
  BY <1>1, SameNetworks DEF Part
<1> QED BY <1>1, <1>5, <1>6 DEF CountInv

\* What taking one more network adds to the codes met.
LEMMA OneMoreMet ==
  ASSUME Database, NEW m \in Nat, m < Len(Networks), NEW code
  PROVE  Met(m + 1, code) = Met(m, code) \cup ({code[tree[Networks[m + 1]]]} \ {Unknown})
<1>1. Recorded \in SUBSET Leaves
  BY DEF Recorded
<1>2. PICK n \in Nat : n = Cardinality(Recorded) /\ n = Len(Networks) /\ m + 1 \in 1..n
  BY <1>1, InOrderIs DEF Networks
<1>3. PICK p \in Recorded : p = Networks[m + 1] /\ Rank(p, Recorded) = m + 1
  BY <1>1, <1>2, InOrderIs DEF Networks
<1>4. \A q \in Recorded : Rank(q, Recorded) \in 1..n /\ (Rank(q, Recorded) = m + 1 => q = p)
  BY <1>1, <1>2, <1>3, RankGrows
<1>5. Seen(m + 1) = Seen(m) \cup {p}
  BY <1>3, <1>4 DEF Seen
<1> QED BY <1>3, <1>5 DEF Met

\* The statistics count every network as one of the two kinds, and meet its codes.
LEMMA StatisticsStep ==
  ASSUME Database, NEW m, Position(m), StatisticsInv(m), Statistics
  PROVE  Position(m + 1)' /\ StatisticsInv(m + 1)'
<1>1. /\ query = "get_network_statistics" /\ Head(todo) \in Recorded /\ m \in Nat
      /\ m < Len(Networks) /\ Head(todo) = Networks[m + 1]
      /\ UNCHANGED db /\ Position(m + 1)' /\ phase = "loop" /\ phase' = phase
      /\ \A S : /\ Part(m, S) \in Nat
                /\ Part(m + 1, S) = Part(m, S) + (IF Head(todo) \in S THEN 1 ELSE 0)
  BY Taken DEF Statistics
<1>2. /\ total' = total + 1
      /\ IF IsIPv4(Head(todo)) THEN ipv4' = ipv4 + 1 /\ ipv6' = ipv6
                               ELSE ipv6' = ipv6 + 1 /\ ipv4' = ipv4
      /\ countries' = countries \cup ({CountryCode} \ {Unknown})
      /\ continents' = continents \cup ({ContinentCode} \ {Unknown})
  BY DEF Statistics
<1>3. /\ total = m /\ ipv4 = Part(m, Kind4) /\ ipv6 = m - ipv4
      /\ countries = Met(m, Country) /\ continents = Met(m, Continent)
  BY <1>1 DEF StatisticsInv
<1>4. total' = m + 1 /\ ipv4' = Part(m + 1, Kind4) /\ ipv6' = (m + 1) - ipv4'
  <2>1. Head(todo) \in Kind4 <=> IsIPv4(Head(todo))
    BY <1>1 DEF Kind4
  <2>2. PICK n \in Nat : n = Part(m, Kind4)
    BY <1>1
  <2>3. CASE IsIPv4(Head(todo))
    <3>1. Part(m + 1, Kind4) = n + 1
      BY <1>1, <2>1, <2>2, <2>3
    <3> QED BY <1>1, <1>2, <1>3, <2>2, <2>3, <3>1
  <2>4. CASE ~IsIPv4(Head(todo))
    <3>1. Part(m + 1, Kind4) = n + 0
      BY <1>1, <2>1, <2>2, <2>4
    <3> QED BY <1>1, <1>2, <1>3, <2>2, <2>4, <3>1
  <2> QED BY <2>3, <2>4
<1>5. countries' = Met(m + 1, Country) /\ continents' = Met(m + 1, Continent)
  BY <1>1, <1>2, <1>3, OneMoreMet DEF CountryCode, ContinentCode
<1>6. /\ Part(m + 1, Kind4)' = Part(m + 1, Kind4) /\ query' = query
      /\ Met(m + 1, Country)' = Met(m + 1, Country)
      /\ Met(m + 1, Continent)' = Met(m + 1, Continent)
  BY <1>1, SameNetworks DEF Part
<1> QED BY <1>1, <1>4, <1>5, <1>6 DEF StatisticsInv

\* The next network of the United States that is printed is the next one there is.
LEMMA NextOfUS ==
  ASSUME Database, NEW m \in Nat, m < Len(Networks), Networks[m + 1] \in Of(US)
  PROVE  /\ Part(m, Of(US)) + 1 \in 1..Len(InOrder(Of(US)))
         /\ InOrder(Of(US))[Part(m, Of(US)) + 1] = Networks[m + 1]
<1>1. Of(US) \in SUBSET Leaves /\ Of(US) \subseteq Recorded
  BY DEF Of, Recorded
<1>2. PICK p \in Of(US) : p = Networks[m + 1]
  OBVIOUS
<1>3. Seen(m) \cap Of(US) = Lower(p, Of(US))
  BY <1>1, <1>2, OneMore DEF Lower
<1>4. Rank(p, Of(US)) = Part(m, Of(US)) + 1
  BY <1>3 DEF Rank, Part, Lower
<1>5. /\ Rank(p, Of(US)) \in 1..Len(InOrder(Of(US)))
      /\ InOrder(Of(US))[Rank(p, Of(US))] = p
  BY <1>1, InOrderIs
<1> QED BY <1>2, <1>4, <1>5

\* The filter prints what is of the United States, and stops when that was the last it wanted.
LEMMA FilterStep ==
  ASSUME Database, NEW m, Position(m), FilterInv(m), Filter
  PROVE  Position(m + 1)' /\ FilterInv(m + 1)'
<1>1. /\ query = "filter_networks" /\ Head(todo) \in Recorded /\ m \in Nat
      /\ m < Len(Networks) /\ Head(todo) = Networks[m + 1]
      /\ UNCHANGED db /\ Position(m + 1)' /\ phase = "loop"
      /\ \A S : /\ Part(m, S) \in Nat
                /\ Part(m + 1, S) = Part(m, S) + (IF Head(todo) \in S THEN 1 ELSE 0)
  BY Taken DEF Filter
<1>2. /\ printed' = IF CountryCode = US THEN Append(printed, Head(todo)) ELSE printed
      /\ phase' = IF Len(printed') >= Limit THEN "over" ELSE phase
  BY DEF Filter, Write, Break
<1>3. PICK n \in Nat : n = Part(m, Of(US)) /\ n = Len(printed) /\ n < Limit
  BY <1>1 DEF FilterInv
<1>4. /\ printed \in Seq(Recorded)
      /\ \A k \in 1..n : printed[k] = InOrder(Of(US))[k]
  BY <1>1, <1>3 DEF FilterInv
<1>5. Head(todo) \in Of(US) <=> CountryCode = US
  BY <1>1 DEF Of, CountryCode
<1>6. Limit \in Nat
  BY DemoAssumption
<1>7. /\ Recorded' = Recorded /\ Networks' = Networks /\ query' = query
      /\ Of(US)' = Of(US) /\ Part(m + 1, Of(US))' = Part(m + 1, Of(US))
  BY <1>1, SameNetworks DEF Part
<1>8. InOrder(Of(US))' = InOrder(Of(US))
  BY <1>7 DEF InOrder, Rank
<1>9. CASE CountryCode = US
  <2>1. Part(m + 1, Of(US)) = n + 1
    BY <1>1, <1>3, <1>5, <1>9
  <2>2. InOrder(Of(US))[n + 1] = Head(todo)
    BY <1>1, <1>3, <1>5, <1>9, NextOfUS
  <2>3. /\ printed' \in Seq(Recorded) /\ Len(printed') = n + 1
        /\ (\A k \in 1..n : printed'[k] = printed[k]) /\ printed'[n + 1] = Head(todo)
    BY <1>1, <1>2, <1>3, <1>4, <1>9, AppendProperties
  <2>4. \A k \in 1..(n + 1) : k \in 1..n \/ k = n + 1
    OBVIOUS
  <2>5. \A k \in 1..(n + 1) : printed'[k] = InOrder(Of(US))[k]
    BY <1>4, <2>2, <2>3, <2>4
  <2>6. n + 1 <= Limit /\ m + 1 > 0
    BY <1>1, <1>3, <1>6
  <2>7. phase' = "loop" => n + 1 < Limit
    BY <1>2, <1>6, <2>3
  <2>8. phase' = "over" => n + 1 = Limit
    BY <1>1, <1>2, <1>6, <2>3, <2>6
  <2> QED BY <1>1, <1>7, <1>8, <2>1, <2>3, <2>5, <2>6, <2>7, <2>8 DEF FilterInv
<1>10. CASE CountryCode # US
  <2>1. printed' = printed /\ phase' = "loop"
    BY <1>1, <1>2, <1>3, <1>6, <1>10
  <2>2. Part(m + 1, Of(US)) = n + 0 /\ n + 0 = n
    <3>1. Head(todo) \notin Of(US)
      BY <1>5, <1>10
    <3>2. Part(m + 1, Of(US)) = n + (IF Head(todo) \in Of(US) THEN 1 ELSE 0)
      BY <1>1, <1>3
    <3> QED BY <3>1, <3>2
  <2>3. Len(printed') = n /\ n <= Limit /\ Part(m + 1, Of(US))' = n
    BY <1>3, <1>6, <1>7, <2>1, <2>2
  <2> QED BY <1>1, <1>3, <1>4, <1>7, <1>8, <2>1, <2>3 DEF FilterInv
<1> QED BY <1>9, <1>10

\* The search prints the network of the address, and stops there.
LEMMA SearchStep ==
  ASSUME Database, NEW m, Position(m), SearchInv(m), Search
  PROVE  Position(m + 1)' /\ SearchInv(m + 1)'
<1>1. /\ query = "search_for_network" /\ Head(todo) \in Recorded /\ Head(todo) \in Leaves
      /\ m \in Nat /\ m < Len(Networks) /\ Head(todo) = Networks[m + 1]
      /\ UNCHANGED db /\ Position(m + 1)' /\ phase = "loop"
  BY Taken DEF Search
<1>2. ContainsAddress(Head(todo), ip) <=> Wanted(Head(todo))
  BY <1>1, ContainsIs DEF Functions
<1>3. printed = <<>> /\ \A k \in 1..m : ~Wanted(Networks[k])
  BY <1>1 DEF SearchInv
<1>4. /\ query' = query /\ Networks' = Networks /\ Recorded' = Recorded
      /\ LeafOf(ip)' = LeafOf(ip) /\ \A p : Wanted(p)' = Wanted(p)
  BY <1>1, SameNetworks DEF Wanted
<1>5. CASE Wanted(Head(todo))
  <2>1. phase' = "over" /\ printed' = <<LeafOf(ip)>> /\ Head(todo) = LeafOf(ip)
    BY <1>2, <1>3, <1>5 DEF Search, Write, Break, Wanted
  <2> QED BY <1>1, <1>4, <1>5, <2>1 DEF SearchInv
<1>6. CASE ~Wanted(Head(todo))
  <2>1. phase' = "loop" /\ printed' = <<>>
    BY <1>1, <1>2, <1>3, <1>6 DEF Search, Break
  <2>2. \A k \in 1..(m + 1) : k \in 1..m \/ k = m + 1
    BY <1>1
  <2>3. \A k \in 1..(m + 1) : ~Wanted(Networks[k])
    BY <1>1, <1>3, <1>6, <2>2
  <2> QED BY <1>1, <1>4, <2>1, <2>3 DEF SearchInv
<1> QED BY <1>5, <1>6

\* The end of a loop, an exception, and what the other methods do, take no network.
LEMMA NoTurn ==
  ASSUME Database, NEW m, DemoInv(m), UNCHANGED <<db, todo, printed, counter, statistics>>,
         \/ UNCHANGED phase
         \/ phase = "loop" /\ phase' = "raised"
         \/ phase = "loop" /\ phase' = "over" /\ Stops
  PROVE  DemoInv(m)'
<1>1. /\ query' = query /\ Recorded' = Recorded /\ Networks' = Networks
      /\ (\A code : Of(code)' = Of(code)) /\ Kind4' = Kind4
      /\ LeafOf(ip)' = LeafOf(ip) /\ (\A S : Part(m, S)' = Part(m, S))
      /\ (\A p : Wanted(p)' = Wanted(p)) /\ \A code : Met(m, code)' = Met(m, code)
  BY SameNetworks DEF Part, Wanted
<1>2. InOrder(Of(US))' = InOrder(Of(US))
  <2>1. Of(US)' = Of(US)
    BY <1>1
  <2> QED BY <2>1 DEF InOrder, Rank
<1>3. \A code : Count(code)' = Count(code)
  BY DEF Count
<1>4. /\ todo' = todo /\ printed' = printed /\ ipv4' = ipv4 /\ ipv6' = ipv6 /\ total' = total
      /\ countries' = countries /\ continents' = continents
  BY DEF statistics
<1>5. Position(m)'
  BY <1>1, <1>4 DEF DemoInv, Position
<1>6. phase' = "loop" => phase = "loop"
  OBVIOUS
<1>7. ASSUME phase' = "over", phase # "over"
      PROVE  /\ m = Len(Networks) \/ (query \in Slices /\ Len(printed) = Limit)
             /\ phase = "loop"
  <2>1. Stops /\ phase = "loop"
    BY <1>7
  <2>2. todo = <<>> => m = Len(Networks)
    <3>1. PICK n \in Nat : n = Len(Networks)
      BY NoneAndAll
    <3>2. m \in 0..n /\ (todo = <<>> => n - m = 0)
      BY <3>1, EmptySeq DEF DemoInv, Position
    <3> QED BY <3>1, <3>2
  <2> QED BY <2>1, <2>2 DEF Stops
<1>8. SliceInv(m)'
  BY <1>1, <1>4, <1>7 DEF DemoInv, SliceInv
<1>9. query \in Slices <=> query = "basic_iteration" \/ query = "export_to_csv"
  BY DEF Slices
<1>10. FilterInv(m)'
  BY <1>1, <1>2, <1>4, <1>6, <1>7, <1>9 DEF DemoInv, FilterInv
<1>11. CountInv(m)'
  BY <1>1, <1>3, <1>7, <1>9 DEF DemoInv, CountInv
<1>12. StatisticsInv(m)'
  BY <1>1, <1>3, <1>4, <1>7, <1>9 DEF DemoInv, StatisticsInv
<1>13. SearchInv(m)'
  BY <1>1, <1>4, <1>6, <1>7, <1>9 DEF DemoInv, SearchInv
<1> QED BY <1>5, <1>8, <1>10, <1>11, <1>12, <1>13 DEF DemoInv

IterationInv == Database /\ (query \in Functions => \E m \in Nat : DemoInv(m))

\* An invariant of another function says nothing of a turn of this one.
LEMMA TurnKeeps ==
  ASSUME Database, NEW m, DemoInv(m), DemoNext, todo' # todo
  PROVE  DemoInv(m + 1)'
<1>1. Position(m)
  BY DEF DemoInv
<1>2. query' = query
  BY DEF DemoNext, Slice, CountByCountry, Filter, Statistics, Search, Exhausted, Raises, Take, db
<1>3. \A f \in {"count_networks_by_country", "filter_networks", "get_network_statistics",
                "search_for_network"} : f \notin Slices
  BY DEF Slices
<1>4. CASE Slice
  <2>1. query \in Slices /\ Position(m + 1)' /\ SliceInv(m + 1)'
    BY <1>1, <1>4, SliceStep DEF DemoInv, Slice, Take
  <2> QED BY <1>2, <1>3, <2>1 DEF DemoInv, FilterInv, CountInv, StatisticsInv, SearchInv
<1>5. CASE CountByCountry
  <2>1. query = "count_networks_by_country" /\ Position(m + 1)' /\ CountInv(m + 1)'
    BY <1>1, <1>5, CountStep DEF DemoInv, CountByCountry, Take
  <2> QED BY <1>2, <1>3, <2>1 DEF DemoInv, SliceInv, FilterInv, StatisticsInv, SearchInv
<1>6. CASE Filter
  <2>1. query = "filter_networks" /\ Position(m + 1)' /\ FilterInv(m + 1)'
    BY <1>1, <1>6, FilterStep DEF DemoInv, Filter, Take
  <2> QED BY <1>2, <1>3, <2>1 DEF DemoInv, SliceInv, CountInv, StatisticsInv, SearchInv
<1>7. CASE Statistics
  <2>1. query = "get_network_statistics" /\ Position(m + 1)' /\ StatisticsInv(m + 1)'
    BY <1>1, <1>7, StatisticsStep DEF DemoInv, Statistics, Take
  <2> QED BY <1>2, <1>3, <2>1 DEF DemoInv, SliceInv, FilterInv, CountInv, SearchInv
<1>8. CASE Search
  <2>1. query = "search_for_network" /\ Position(m + 1)' /\ SearchInv(m + 1)'
    BY <1>1, <1>8, SearchStep DEF DemoInv, Search, Take
  <2> QED BY <1>2, <1>3, <2>1 DEF DemoInv, SliceInv, FilterInv, CountInv, StatisticsInv
<1>9. ~Exhausted /\ ~Raises
  BY DEF Exhausted, Raises
<1> QED BY <1>4, <1>5, <1>6, <1>7, <1>8, <1>9 DEF DemoNext

\* Every step takes one more network, or none.
LEMMA IterationStep == IterationInv /\ [Next]_vars => IterationInv'
<1> SUFFICES ASSUME IterationInv, [Next]_vars PROVE IterationInv'
  OBVIOUS
<1>1. Database /\ Database' /\ UNCHANGED db /\ query' = query
  BY SameDatabase, StillDatabase DEF IterationInv, db
<1> SUFFICES ASSUME query \in Functions PROVE \E m \in Nat : DemoInv(m)'
  BY <1>1 DEF IterationInv
<1>2. PICK m \in Nat : DemoInv(m)
  BY DEF IterationInv
<1>3. CASE DemoNext /\ todo' # todo
  <2>1. DemoInv(m + 1)' /\ m + 1 \in Nat
    BY <1>1, <1>2, <1>3, TurnKeeps
  <2> QED BY <2>1
<1>4. CASE DemoNext /\ todo' = todo
  <2>1. ASSUME NEW f, Take(f) PROVE FALSE
    <3>1. Position(m) /\ Position(m + 1)'
      BY <1>1, <1>2, <2>1, Taken DEF DemoInv
    <3>2. Networks' = Networks
      BY <1>1, SameNetworks
    <3>3. PICK n \in Nat : n = Len(Networks)
      BY <1>1, NoneAndAll
    <3>4. Len(todo) = n - m /\ Len(todo) = n - (m + 1)
      BY <1>4, <3>1, <3>2, <3>3 DEF Position
    <3> QED BY <3>3, <3>4
  <2>2. Exhausted \/ Raises
    BY <1>4, <2>1 DEF DemoNext, Slice, CountByCountry, Filter, Statistics, Search
  <2>3. CASE Exhausted
    BY <1>1, <1>2, <2>3, NoTurn DEF Exhausted
  <2>4. CASE Raises
    BY <1>1, <1>2, <2>4, NoTurn DEF Raises
  <2> QED BY <2>2, <2>3, <2>4
<1>5. CASE UNCHANGED demo
  <2>1. DemoInv(m)'
    BY <1>1, <1>2, <1>5, NoTurn DEF demo
  <2> QED BY <2>1
<1> QED BY <1>3, <1>4, <1>5 DEF Next, vars

\* None has been taken at first.
LEMMA IterationStarts == Init => IterationInv
<1> SUFFICES ASSUME Init PROVE IterationInv
  OBVIOUS
<1>1. query \in Functions => DemoInv(0) /\ 0 \in Nat
  BY DemoStarts
<1> QED BY <1>1, InitDatabase DEF IterationInv

\* The beginning of a sequence is known by its length and its members.
LEMMA FirstOfIs ==
  ASSUME NEW S, NEW s \in Seq(S), NEW t \in Seq(S), Len(t) <= Len(s),
         Len(t) = Limit \/ (Len(t) = Len(s) /\ Len(t) <= Limit),
         \A k \in 1..Len(t) : t[k] = s[k]
  PROVE  t = FirstOf(s)
<1>1. PICK n \in Nat : n = Len(t)
  BY LenProperties
<1>2. FirstOf(s) = SubSeq(s, 1, n)
  <2>1. Len(s) \in Nat /\ Limit \in Nat
    BY LenProperties, DemoAssumption
  <2> QED BY <1>1, <2>1 DEF FirstOf
<1>3. \A k \in 1..n : s[k] \in S /\ 1 + k - 1 = k
  <2>1. \A k \in 1..n : s[k] = t[k] /\ t[k] \in S
    BY <1>1, ElementOfSeq
  <2> QED BY <2>1
<1>4. (IF 1 <= n THEN n - 1 + 1 ELSE 0) = n /\ n - 1 + 1 = n
  OBVIOUS
<1>5. /\ SubSeq(s, 1, n) \in Seq(S) /\ Len(SubSeq(s, 1, n)) = n
      /\ \A k \in 1..n : SubSeq(s, 1, n)[k] = s[k]
  BY <1>3, <1>4, SubSeqProperties
<1> QED BY <1>1, <1>2, <1>5, SeqEqual

\* What has been printed and what is left make up the networks.
LEMMA SlicesAreFirst ==
  ASSUME Database, NEW m \in Nat, DemoInv(m), query \in Slices
  PROVE  /\ printed \o todo = Networks
         /\ phase = "over" => printed = FirstOf(Networks)
<1>1. PICK n \in Nat : n = Len(Networks) /\ Networks \in Seq(Recorded)
  <2>1. Recorded \in SUBSET Leaves
    BY DEF Recorded
  <2> QED BY <2>1, InOrderIs, NoneAndAll DEF Networks
<1>2. /\ m \in 0..n /\ todo \in Seq(Recorded) /\ Len(todo) = n - m
      /\ \A k \in 1..Len(todo) : todo[k] = Networks[m + k]
  BY <1>1 DEF DemoInv, Position
<1>3. /\ printed \in Seq(Recorded) /\ Len(printed) = m /\ m <= Limit
      /\ \A k \in 1..m : printed[k] = Networks[k]
      /\ phase = "over" => m = n \/ m = Limit
  BY <1>1 DEF DemoInv, SliceInv
<1>4. printed \o todo = Networks
  <2>1. /\ printed \o todo \in Seq(Recorded) /\ Len(printed \o todo) = n
        /\ \A k \in 1..n : (printed \o todo)[k] = IF k <= m THEN printed[k] ELSE todo[k - m]
    <3>1. m + (n - m) = n
      BY <1>2
    <3>2. Len(printed) + Len(todo) = n
      BY <1>2, <1>3, <3>1
    <3>3. /\ printed \o todo \in Seq(Recorded) /\ Len(printed \o todo) = Len(printed) + Len(todo)
          /\ \A k \in 1..(Len(printed) + Len(todo)) :
               (printed \o todo)[k] =
                 IF k <= Len(printed) THEN printed[k] ELSE todo[k - Len(printed)]
      BY <1>2, <1>3, ConcatProperties
    <3>4. Len(printed) = m
      BY <1>3
    <3> QED BY <3>2, <3>3, <3>4, Zenon
  <2>2. ASSUME NEW k \in 1..n PROVE (printed \o todo)[k] = Networks[k]
    <3>1. CASE k <= m
      <4>1. k \in 1..m
        BY <3>1
      <4> QED BY <1>3, <2>1, <3>1, <4>1
    <3>2. CASE ~(k <= m)
      <4>1. k - m \in 1..(n - m) /\ m + (k - m) = k
        BY <1>2, <3>2
      <4> QED BY <1>2, <2>1, <3>2, <4>1
    <3> QED BY <3>1, <3>2
  <2> QED BY <1>1, <2>1, <2>2, SeqEqual
<1>5. ASSUME phase = "over" PROVE printed = FirstOf(Networks)
  <2>1. Len(printed) <= Len(Networks)
    BY <1>1, <1>2, <1>3
  <2>2. Len(printed) = Limit \/ (Len(printed) = Len(Networks) /\ Len(printed) <= Limit)
    BY <1>1, <1>3, <1>5
  <2> QED BY <1>1, <1>3, <2>1, <2>2, FirstOfIs
<1> QED BY <1>4, <1>5

\* When every network has been taken, a part of them is counted in full.
LEMMA AllTaken ==
  ASSUME Database, NEW S \in SUBSET Recorded
  PROVE  /\ Part(Len(Networks), S) = Cardinality(S)
         /\ \A m : Part(m, S) <= Cardinality(S)
<1>1. Recorded \in SUBSET Leaves /\ S \in SUBSET Leaves
  BY DEF Recorded
<1>2. Seen(Len(Networks)) \cap S = S
  BY NoneAndAll
<1>3. \A m : Seen(m) \cap S \in SUBSET S
  OBVIOUS
<1>4. IsFiniteSet(S)
  BY <1>1, InOrderIs
<1> QED BY <1>2, <1>3, <1>4, FS_Subset DEF Part

\* At its end the filter has printed all there are, or as many as the limit says.
LEMMA FilterIsFirst ==
  ASSUME Database, NEW m \in Nat, DemoInv(m), query = "filter_networks", phase = "over"
  PROVE  /\ printed = FirstOf(InOrder(Of(US)))
         /\ todo # <<>> => printed[Len(printed)] = Networks[Len(Networks) - Len(todo)]
<1>1. Of(US) \in SUBSET Leaves /\ Of(US) \in SUBSET Recorded
  BY DEF Of, Recorded
<1>2. /\ InOrder(Of(US)) \in Seq(Of(US)) /\ Len(InOrder(Of(US))) = Cardinality(Of(US))
      /\ Cardinality(Of(US)) \in Nat
  BY <1>1, InOrderIs
<1>3. PICK n \in Nat : n = Len(Networks)
  BY NoneAndAll
<1>4. m \in 0..n /\ todo \in Seq(Recorded) /\ Len(todo) = n - m
  BY <1>3 DEF DemoInv, Position
<1>5. /\ printed \in Seq(Recorded) /\ Len(printed) = Part(m, Of(US)) /\ Len(printed) <= Limit
      /\ \A k \in 1..Len(printed) : printed[k] = InOrder(Of(US))[k]
      /\ m = n \/ (Len(printed) = Limit /\ printed[Len(printed)] = Networks[m])
  BY <1>3 DEF DemoInv, FilterInv
<1>6. Len(printed) <= Len(InOrder(Of(US)))
  BY <1>1, <1>2, <1>5, AllTaken
<1>7. m = n => Len(printed) = Len(InOrder(Of(US)))
  BY <1>1, <1>2, <1>3, <1>5, AllTaken
<1>8. InOrder(Of(US)) \in Seq(Recorded)
  <2>1. \A k \in 1..Len(InOrder(Of(US))) : InOrder(Of(US))[k] \in Recorded
    BY <1>1, <1>2, ElementOfSeq
  <2>2. InOrder(Of(US)) \in [1..Len(InOrder(Of(US))) -> Recorded]
    BY <1>2, <2>1, LenProperties
  <2> QED BY <1>2, <2>2, SeqDef
<1>9. printed = FirstOf(InOrder(Of(US)))
  BY <1>5, <1>6, <1>7, <1>8, FirstOfIs
<1>10. ASSUME todo # <<>> PROVE printed[Len(printed)] = Networks[Len(Networks) - Len(todo)]
  <2>1. m # n /\ n - (n - m) = m
    BY <1>4, <1>10, EmptySeq
  <2> QED BY <1>3, <1>4, <1>5, <2>1
<1> QED BY <1>9, <1>10

\* At the end every network has been counted.
LEMMA StatisticsAreRight ==
  ASSUME Database, NEW m \in Nat, DemoInv(m), query \in Functions
  PROVE  StatisticsAddUp
<1> SUFFICES ASSUME phase = "over" PROVE StatisticsAddUp
  BY DEF StatisticsAddUp
<1>1. /\ \A code : Of(code) \in SUBSET Recorded
      /\ Kind4 \in SUBSET Recorded
  BY DEF Of, Kind4
<1>2. /\ \A code : Part(Len(Networks), Of(code)) = Cardinality(Of(code))
      /\ Part(Len(Networks), Kind4) = Cardinality({p \in Recorded : IsIPv4(p)})
  BY <1>1, AllTaken DEF Kind4
<1>3. CASE query = "count_networks_by_country"
  <2>1. \A code : Count(code) = Cardinality(Of(code))
    BY <1>2, <1>3 DEF DemoInv, CountInv
  <2> QED BY <1>3, <2>1 DEF StatisticsAddUp
<1>4. CASE query = "get_network_statistics"
  <2>1. /\ total = m /\ ipv4 = Part(m, Kind4) /\ ipv6 = m - ipv4 /\ m = Len(Networks)
        /\ countries = Met(m, Country) /\ continents = Met(m, Continent)
    BY <1>4 DEF DemoInv, StatisticsInv
  <2>2. ipv4 \in Nat
    <3>1. Recorded \in SUBSET Leaves /\ Kind4 \in SUBSET Leaves
      BY DEF Recorded, Kind4
    <3> QED BY <1>1, <2>1, <3>1, InOrderIs, AllTaken
  <2>3. ipv4 + ipv6 = total
    BY <2>1, <2>2
  <2>4. Seen(m) = Recorded
    BY <2>1, NoneAndAll
  <2>5. /\ countries = {Country[tree[p]] : p \in Recorded} \ {Unknown}
        /\ continents = {Continent[tree[p]] : p \in Recorded} \ {Unknown}
    BY <2>1, <2>4 DEF Met
  <2> QED BY <1>2, <1>4, <2>1, <2>3, <2>5 DEF StatisticsAddUp
<1>5. CASE query \notin {"count_networks_by_country", "get_network_statistics"}
  BY <1>5 DEF StatisticsAddUp
<1> QED BY <1>3, <1>4, <1>5

\* At the end every network has been looked at, or the one of the address was found.
LEMMA SearchIsRight ==
  ASSUME Database, NEW m \in Nat, DemoInv(m), query \in Functions
  PROVE  SearchAgreesWithGet
<1> SUFFICES ASSUME query = "search_for_network", phase = "over"
             PROVE  printed = IF tree[LeafOf(ip)] = None \/ ~IsIPv4(LeafOf(ip))
                              THEN <<>> ELSE <<LeafOf(ip)>>
  <2>1. /\ IsIPv4(LeafOf(ip)) <=> version = 4 \/ Len(LeafOf(ip)) >= Padding
        /\ Len(LeafOf(ip)) \in Nat /\ Padding \in Nat
    <3>1. LeafOf(ip) \in Leaves
      BY LeafIs DEF Database
    <3>2. LeafOf(ip) \in Seq({0, 1})
      BY <3>1, TheTree DEF IsTree, Bit
    <3> QED BY <3>2, ContainsIs, LenProperties, TreeAssumption
  <2> QED BY <2>1 DEF SearchAgreesWithGet
<1>1. LeafOf(ip) \in Leaves
  BY LeafIs DEF Database
<1>2. LeafOf(ip) \in Recorded <=> tree[LeafOf(ip)] # None
  BY <1>1 DEF Recorded
<1>3. \/ printed = <<>> /\ m = Len(Networks) /\ \A k \in 1..m : ~Wanted(Networks[k])
      \/ /\ printed = <<LeafOf(ip)>> /\ LeafOf(ip) \in Recorded
         /\ IsIPv4(LeafOf(ip))
  BY DEF DemoInv, SearchInv, Wanted
<1>4. LeafOf(ip) \in Recorded => \E k \in 1..Len(Networks) : Networks[k] = LeafOf(ip)
  <2>1. Recorded \in SUBSET Leaves
    BY DEF Recorded
  <2> QED BY <2>1, InOrderIs DEF Networks
<1>5. ASSUME tree[LeafOf(ip)] # None, IsIPv4(LeafOf(ip)) PROVE printed = <<LeafOf(ip)>>
  BY <1>2, <1>3, <1>4, <1>5 DEF Wanted
<1> QED BY <1>2, <1>3, <1>5

\* For every tree, record and Limit: the first networks are printed, or the first of the
\* United States, in the order of the tree, and no network is taken that is not needed.
THEOREM PrintsTheFirst == Spec => []PrintsFirst
<1>1. IterationInv => PrintsFirst
  <2> SUFFICES ASSUME IterationInv, query \in Functions PROVE PrintsFirst
    BY DEF PrintsFirst, Functions
  <2>1. PICK m \in Nat : Database /\ DemoInv(m)
    BY DEF IterationInv
  <2> QED BY <2>1, SlicesAreFirst, FilterIsFirst DEF PrintsFirst
<1> QED BY <1>1, IterationStarts, IterationStep, PTL DEF Spec

\* For every tree and every choice of records: the statistics count each network once, and
\* list the countries and the continents there are.
THEOREM StatisticsAreExact == Spec => []StatisticsAddUp
<1>1. IterationInv => StatisticsAddUp
  <2> SUFFICES ASSUME IterationInv, query \in Functions PROVE StatisticsAddUp
    BY DEF StatisticsAddUp, Functions
  <2> QED BY StatisticsAreRight DEF IterationInv
<1> QED BY <1>1, IterationStarts, IterationStep, PTL DEF Spec

\* For every tree and IPv4 address: a search through the networks finds what get() finds if
\* the answer is a network of IPv4 addresses, and nothing if it is a leaf of an IPv6 tree
\* above all of them.
THEOREM SearchFindsIPv4Networks == Spec => []SearchAgreesWithGet
<1>1. IterationInv => SearchAgreesWithGet
  <2> SUFFICES ASSUME IterationInv, query \in Functions PROVE SearchAgreesWithGet
    BY DEF SearchAgreesWithGet, Functions
  <2> QED BY SearchIsRight DEF IterationInv
<1> QED BY <1>1, IterationStarts, IterationStep, PTL DEF Spec
=============================================================================
