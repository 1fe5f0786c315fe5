--------------------------- MODULE DecoderProofs ---------------------------
(***************************************************************************)
(* What the decoder returns is the record, for every record, every key     *)
(* cache and any number of decodes inside each other.                      *)
(***************************************************************************)
EXTENDS Decoder, FiniteSetTheorems, SequenceTheorems, WellFoundedInduction, TLAPS

-----------------------------------------------------------------------------
(* Induction: what fails for some natural number fails for a least one.    *)

\* A nonempty set of naturals has a least member.
LEMMA LeastNatural ==
  ASSUME NEW T \in SUBSET Nat, T # {}
  PROVE  \E m \in T : \A n \in T : m <= n
<1> DEFINE R == {ss \in Nat \X Nat : ss[1] < ss[2]}
<1>1. IsWellFoundedOn(R, Nat)
  BY NatLessThanWellFounded DEF OpToRel
<1>2. PICK m \in T : \A n \in T : <<n, m>> \notin R
  <2> HIDE DEF R
  <2> QED BY <1>1, WFMin
<1>3. ASSUME NEW n \in T PROVE m <= n
  <2>1. <<n, m>> \in Nat \X Nat /\ <<n, m>>[1] = n /\ <<n, m>>[2] = m
    OBVIOUS
  <2>2. ~(n < m)
    BY <1>2, <2>1
  <2> QED BY <2>2
<1> QED BY <1>3

\* A nonempty set of positions in a sequence has a greatest member.
LEMMA GreatestOf ==
  ASSUME NEW N \in Nat, NEW T \in SUBSET (1..N), T # {}
  PROVE  \E m \in T : \A n \in T : n <= m
<1> DEFINE U == {N - n : n \in T}
<1>1. U \in SUBSET Nat /\ U # {}
  <2>1. \A n \in T : n \in 1..N /\ N - n \in Nat
    OBVIOUS
  <2>2. U \subseteq Nat
    BY <2>1
  <2>3. U # {}
    OBVIOUS
  <2> QED BY <2>2, <2>3
<1>2. PICK u \in U : \A v \in U : u <= v
  <2> HIDE DEF U
  <2> QED BY <1>1, LeastNatural
<1>3. PICK m \in T : u = N - m
  OBVIOUS
<1>4. ASSUME NEW n \in T PROVE n <= m
  <2>1. u <= N - n
    BY <1>2
  <2> QED BY <1>3, <2>1
<1> QED BY <1>4

-----------------------------------------------------------------------------
(* The last item under a key, and what one more item does to a dict.       *)

IsLast(items, n, key, k) ==
  /\ k \in 1..n /\ Str(items[k][1]) = key
  /\ \A j \in (k + 1)..n : Str(items[j][1]) # key

\* At most one item is the last under a key.
LEMMA LastIs ==
  ASSUME NEW n \in Nat, NEW items, NEW key, NEW k, IsLast(items, n, key, k)
  PROVE  LastAt(items, n, key) = k
<1>1. ASSUME NEW j, IsLast(items, n, key, j) PROVE j = k
  <2>1. j \in 1..n /\ k \in 1..n /\ Str(items[j][1]) = key /\ Str(items[k][1]) = key
    BY <1>1 DEF IsLast
  <2>2. ~(j < k)
    BY <1>1, <2>1 DEF IsLast
  <2>3. ~(k < j)
    BY <1>1, <2>1 DEF IsLast
  <2> QED BY <2>1, <2>2, <2>3
<1>2. LastAt(items, n, key) = CHOOSE j : IsLast(items, n, key, j)
  BY DEF LastAt, IsLast
<1> QED BY <1>1, <1>2

\* A key that occurs has a last item.
LEMMA LastExists ==
  ASSUME NEW n \in Nat, NEW items, NEW key \in {Str(items[k][1]) : k \in 1..n}
  PROVE  IsLast(items, n, key, LastAt(items, n, key))
<1> DEFINE T == {k \in 1..n : Str(items[k][1]) = key}
<1>1. T \in SUBSET (1..n) /\ T # {}
  OBVIOUS
<1>2. PICK m \in T : \A k \in T : k <= m
  <2> HIDE DEF T
  <2> QED BY <1>1, GreatestOf
<1>3. IsLast(items, n, key, m)
  BY <1>2 DEF IsLast
<1> QED BY <1>3, LastIs

\* One more item: its key has its value, the other keys keep theirs.
LEMMA DictGrows ==
  ASSUME NEW n \in Nat, NEW items, NEW py
  PROVE  DictOf(py, items, n + 1)
           = With(DictOf(py, items, n), Str(items[n + 1][1]), py[items[n + 1][2]])
<1> DEFINE new == Str(items[n + 1][1])
           keys(m) == {Str(items[k][1]) : k \in 1..m}
<1>1. keys(n + 1) = keys(n) \cup {new}
  <2>1. 1..(n + 1) = 1..n \cup {n + 1}
    OBVIOUS
  <2> QED BY <2>1
<1>2. LastAt(items, n + 1, new) = n + 1
  <2>1. IsLast(items, n + 1, new, n + 1)
    BY DEF IsLast
  <2> QED BY <2>1, LastIs
<1>3. ASSUME NEW key \in keys(n), key # new
      PROVE  LastAt(items, n + 1, key) = LastAt(items, n, key)
  <2>1. IsLast(items, n, key, LastAt(items, n, key))
    BY <1>3, LastExists
  <2>2. IsLast(items, n + 1, key, LastAt(items, n, key))
    BY <1>3, <2>1 DEF IsLast
  <2> QED BY <2>2, LastIs
<1>4. DOMAIN DictOf(py, items, n) = keys(n)
  BY DEF DictOf
<1>5. ASSUME NEW key \in keys(n + 1)
      PROVE  py[items[LastAt(items, n + 1, key)][2]]
               = IF key = new THEN py[items[n + 1][2]] ELSE DictOf(py, items, n)[key]
  <2>1. CASE key = new
    BY <1>2, <2>1
  <2>2. CASE key # new
    <3>1. key \in keys(n)
      BY <1>1, <1>5, <2>2
    <3> QED BY <1>3, <2>2, <3>1 DEF DictOf
  <2> QED BY <2>1, <2>2
<1> QED BY <1>1, <1>4, <1>5 DEF DictOf, With

\* One more item: it is appended.
LEMMA ListGrows ==
  ASSUME NEW n \in Nat, NEW items, NEW py
  PROVE  ListOf(py, items, n + 1) = Append(ListOf(py, items, n), py[items[n + 1]])
<1> DEFINE V == {py[items[k]] : k \in 1..(n + 1)}
           short == ListOf(py, items, n)
           long == ListOf(py, items, n + 1)
           v == py[items[n + 1]]
<1>1. v \in V /\ short \in [1..n -> V] /\ long \in [1..(n + 1) -> V]
  BY DEF ListOf
<1>2. \A k \in 1..n : long[k] = short[k]
  BY DEF ListOf
<1>3. long[n + 1] = v
  BY DEF ListOf
<1> HIDE DEF V, short, long, v
<1>4. /\ short \in Seq(V) /\ Len(short) = n
      /\ long \in Seq(V) /\ Len(long) = n + 1
  BY <1>1, SeqDef, LenProperties
<1>5. /\ Append(short, v) \in Seq(V) /\ Len(Append(short, v)) = n + 1
      /\ \A k \in 1..n : Append(short, v)[k] = short[k]
      /\ Append(short, v)[n + 1] = v
  BY <1>1, <1>4, AppendProperties
<1>6. \A k \in 1..(n + 1) : Append(short, v)[k] = long[k]
  BY <1>2, <1>3, <1>5
<1>7. Append(short, v) = long
  BY <1>4, <1>5, <1>6, SeqEqual
<1> QED BY <1>7 DEF short, long, v

-----------------------------------------------------------------------------
(* PyOf is well defined: nesting is bounded.                               *)

\* What a part is depends on what its parts are only.
LEMMA PyOfPartsAgree ==
  ASSUME NEW r \in Part, NEW f, NEW g,
         \A q \in Part : Depth[q] < Depth[r] => f[q] = g[q]
  PROVE  PyOfParts(f, r) = PyOfParts(g, r)
<1>1. CASE r.kind \in {"scalar", "unreadable"}
  BY <1>1 DEF PyOfParts
<1>2. CASE r.kind = "list"
  <2>1. /\ r.items \in Seq(Part)
        /\ \A k \in DOMAIN r.items : r.items[k] \in Part /\ Depth[r.items[k]] < Depth[r]
    BY <1>2, RecordAssumption, ElementOfSeq
  <2>2. \A k \in DOMAIN r.items : f[r.items[k]] = g[r.items[k]]
    BY <2>1
  <2>3. DOMAIN r.items = 1..Len(r.items)
    BY <2>1, LenProperties
  <2>4. ListOf(f, r.items, Len(r.items)) = ListOf(g, r.items, Len(r.items))
    BY <2>2, <2>3 DEF ListOf
  <2> QED BY <1>2, <2>2, <2>4 DEF PyOfParts
<1>3. CASE r.kind = "map"
  <2>1. /\ r.items \in Seq(Key \X Part)
        /\ \A k \in DOMAIN r.items : r.items[k][2] \in Part /\ Depth[r.items[k][2]] < Depth[r]
    BY <1>3, RecordAssumption, ElementOfSeq
  <2>2. \A k \in DOMAIN r.items : f[r.items[k][2]] = g[r.items[k][2]]
    BY <2>1
  <2>3. DOMAIN r.items = 1..Len(r.items) /\ Len(r.items) \in Nat
    BY <2>1, LenProperties
  <2>4. ASSUME NEW key \in {Str(r.items[k][1]) : k \in 1..Len(r.items)}
        PROVE  LastAt(r.items, Len(r.items), key) \in 1..Len(r.items)
    BY <2>3, <2>4, LastExists DEF IsLast
  <2>5. DictOf(f, r.items, Len(r.items)) = DictOf(g, r.items, Len(r.items))
    BY <2>2, <2>3, <2>4 DEF DictOf
  <2> QED BY <1>3, <2>2, <2>5 DEF PyOfParts
<1> QED BY <1>1, <1>2, <1>3, RecordAssumption

\* The recursion that defines the Python value of a part has a solution: a record nested no
\* deeper than the crate follows has a value, whatever is in it.
LEMMA PyOfDefined == PyOf = [r \in Part |-> PyOfParts(PyOf, r)]
<1> DEFINE Upto(f, d) == \A r \in Part : Depth[r] < d => f[r] = PyOfParts(f, r)
           T == {d \in Nat : ~\E f : Upto(f, d)}
<1>0. \A r \in Part : Depth[r] \in Nat /\ Depth[r] < MaxDepth + 1
  BY RecordAssumption
<1>1. T = {}
  <2> SUFFICES ASSUME T # {} PROVE FALSE
    OBVIOUS
  <2>1. PICK m \in T : \A n \in T : m <= n
    <3>1. T \in SUBSET Nat
      OBVIOUS
    <3> HIDE DEF T
    <3> QED BY <3>1, LeastNatural
  <2>2. m \in Nat /\ ~\E f : Upto(f, m)
    OBVIOUS
  <2>3. m # 0
    <3>1. Upto(0, 0)
      BY <1>0
    <3> QED BY <2>2, <3>1
  <2>4. m - 1 \in Nat /\ m - 1 \notin T
    BY <2>1, <2>2, <2>3
  <2>5. PICK f : Upto(f, m - 1)
    BY <2>4
  <2> DEFINE g == [r \in Part |-> IF Depth[r] < m - 1 THEN f[r] ELSE PyOfParts(f, r)]
  <2>6. ASSUME NEW r \in Part, Depth[r] < m PROVE g[r] = PyOfParts(g, r)
    <3>1. g[r] = PyOfParts(f, r)
      BY <2>5
    <3>2. \A q \in Part : Depth[q] < Depth[r] => f[q] = g[q]
      BY <1>0, <2>2, <2>6
    <3> HIDE DEF g
    <3>3. PyOfParts(f, r) = PyOfParts(g, r)
      BY <3>2, PyOfPartsAgree
    <3> QED BY <3>1, <3>3
  <2>7. Upto(g, m)
    BY <2>6
  <2> QED BY <2>2, <2>7
<1>2. PICK f : Upto(f, MaxDepth + 1)
  <2>1. MaxDepth + 1 \in Nat
    BY RecordAssumption
  <2> QED BY <1>1, <2>1
<1> DEFINE g == [r \in Part |-> f[r]]
<1>3. g = [r \in Part |-> PyOfParts(g, r)]
  <2>1. ASSUME NEW r \in Part PROVE g[r] = PyOfParts(g, r)
    <3>1. g[r] = PyOfParts(f, r)
      BY <1>0, <1>2
    <3>2. \A q \in Part : Depth[q] < Depth[r] => f[q] = g[q]
      OBVIOUS
    <3> HIDE DEF g
    <3>3. PyOfParts(f, r) = PyOfParts(g, r)
      BY <3>2, PyOfPartsAgree
    <3> QED BY <3>1, <3>3
  <2> QED BY <2>1
<1> HIDE DEF g
<1>4. \E h : h = [r \in Part |-> PyOfParts(h, r)]
  BY <1>3
<1> QED BY <1>4 DEF PyOf

\* What the parts of each kind are.
LEMMA PyOfPart ==
  ASSUME NEW r \in Part
  PROVE  PyOf[r] = PyOfParts(PyOf, r)
BY PyOfDefined

-----------------------------------------------------------------------------
(* The stack of visitors                                                   *)

\* A stack is a sequence,
LEMMA StackIs ==
  ASSUME NEW s, IsStack(s)
  PROVE  /\ Len(s) \in Nat /\ DOMAIN s = 1..Len(s)
         /\ s \in Seq({s[k] : k \in DOMAIN s})
<1> DEFINE S == {s[k] : k \in DOMAIN s}
<1>1. Len(s) \in Nat /\ s = [k \in 1..Len(s) |-> s[k]]
  BY DEF IsStack
<1>2. DOMAIN s = 1..Len(s)
  BY <1>1
<1>3. s \in [1..Len(s) -> S]
  BY <1>1, <1>2
<1>4. s \in Seq(S)
  <2> HIDE DEF S
  <2> QED BY <1>1, <1>3, SeqDef
<1> QED BY <1>1, <1>2, <1>4

\* and a sequence is a stack.
LEMMA StackOf ==
  ASSUME NEW S, NEW s \in Seq(S)
  PROVE  IsStack(s)
<1>1. Len(s) \in Nat /\ s \in [1..Len(s) -> S]
  BY LenProperties
<1> QED BY <1>1 DEF IsStack

\* Append leaves the frames below alone.
LEMMA StackPush ==
  ASSUME NEW s, IsStack(s), NEW f
  PROVE  /\ IsStack(Append(s, f))
         /\ Len(Append(s, f)) = Len(s) + 1
         /\ \A k \in 1..Len(s) : Append(s, f)[k] = s[k]
         /\ Append(s, f)[Len(s) + 1] = f
<1> DEFINE S == {s[k] : k \in DOMAIN s}
           u == Append(s, f)
           U == {u[k] : k \in DOMAIN u}
<1>1. s \in Seq(S \cup {f}) /\ Len(s) \in Nat
  <2>1. s \in Seq(S) /\ S \subseteq S \cup {f} /\ Len(s) \in Nat
    BY StackIs
  <2> HIDE DEF S
  <2> QED BY <2>1, SeqMonotonic
<1>2. /\ u \in Seq(S \cup {f}) /\ Len(u) = Len(s) + 1
      /\ \A k \in 1..Len(s) : u[k] = s[k]
      /\ u[Len(s) + 1] = f
  BY <1>1, AppendProperties
<1>3. u \in [1..(Len(s) + 1) -> U]
  <2>1. u \in [1..(Len(s) + 1) -> S \cup {f}]
    BY <1>2, LenProperties
  <2> QED BY <2>1
<1>4. u \in Seq(U)
  <2>1. Len(s) + 1 \in Nat
    BY <1>1
  <2> HIDE DEF u, U
  <2> QED BY <1>3, <2>1, SeqDef
<1> QED BY <1>2, <1>4, StackOf

\* What is left after the innermost frames are gone.
LEMMA StackCut ==
  ASSUME NEW s, IsStack(s), NEW m \in 0..Len(s)
  PROVE  /\ IsStack(SubSeq(s, 1, m))
         /\ Len(SubSeq(s, 1, m)) = m
         /\ \A k \in 1..m : SubSeq(s, 1, m)[k] = s[k]
<1> DEFINE S == {s[k] : k \in DOMAIN s}
           u == SubSeq(s, 1, m)
           U == {u[k] : k \in DOMAIN u}
<1>1. s \in Seq(S) /\ Len(s) \in Nat /\ m \in Nat /\ DOMAIN s = 1..Len(s)
  BY StackIs
<1>2. u = [k \in 1..m |-> s[k]]
  <2>1. u = [k \in 1..(m - 1 + 1) |-> s[1 + k - 1]]
    BY <1>1, SubSeqProperties
  <2>2. m - 1 + 1 = m /\ \A k \in 1..m : 1 + k - 1 = k
    BY <1>1
  <2> QED BY <2>1, <2>2
<1>3. u \in [1..m -> U]
  BY <1>2
<1>4. u \in Seq(U) /\ Len(u) = m
  <2> HIDE DEF u, U
  <2> QED BY <1>1, <1>3, SeqDef, LenProperties
<1> QED BY <1>2, <1>4, StackOf

\* A new innermost frame in place of the old one.
LEMMA StackTop ==
  ASSUME NEW s, IsStack(s), Len(s) > 0, NEW f
  PROVE  /\ IsStack([s EXCEPT ![Len(s)] = f])
         /\ Len([s EXCEPT ![Len(s)] = f]) = Len(s)
         /\ \A k \in 1..(Len(s) - 1) : [s EXCEPT ![Len(s)] = f][k] = s[k]
         /\ [s EXCEPT ![Len(s)] = f][Len(s)] = f
<1> DEFINE u == [s EXCEPT ![Len(s)] = f]
           U == {u[k] : k \in DOMAIN u}
<1>1. Len(s) \in Nat /\ DOMAIN s = 1..Len(s) /\ s = [k \in 1..Len(s) |-> s[k]]
  BY StackIs DEF IsStack
<1>2. u = [k \in 1..Len(s) |-> IF k = Len(s) THEN f ELSE s[k]]
  BY <1>1
<1>3. u \in [1..Len(s) -> U]
  BY <1>2
<1>4. u \in Seq(U) /\ Len(u) = Len(s)
  <2> HIDE DEF u, U
  <2> QED BY <1>1, <1>3, SeqDef, LenProperties
<1>5. \A n \in Nat : n > 0 => n \in 1..n /\ \A k \in 1..(n - 1) : k \in 1..n /\ k # n
  OBVIOUS
<1> QED BY <1>1, <1>2, <1>4, <1>5, StackOf

\* Below the frames that a step touches nothing changes.
LEMMA LevelsPush ==
  ASSUME StackInv, NEW f, frames' = Append(frames, f), FrameInv(f), HandInv(f, hand'),
         IF f.kind = "call" THEN f.done = hand
         ELSE /\ Len(frames) > 0 /\ f.part = Awaited(frames[Len(frames)])
              /\ HandInv(frames[Len(frames)], Inner)
  PROVE  StackInv'
<1>0. PICK n \in Nat : n = Len(frames)
  BY StackIs DEF StackInv
<1>1. IsStack(frames) /\ n \in Nat /\ DOMAIN frames = 1..n
  BY <1>0, StackIs DEF StackInv
<1>2. /\ IsStack(frames') /\ Len(frames') = n + 1
      /\ \A k \in 1..n : frames'[k] = frames[k]
      /\ frames'[n + 1] = f
  BY <1>0, <1>1, StackPush
<1>3. DOMAIN frames' = 1..(n + 1)
  BY <1>2, StackIs
<1>4. \A k \in 0..(n - 1) : k + 1 \in 1..n /\ k # n /\ k # n + 1
  BY <1>1
<1>5. ASSUME NEW k \in 0..(n - 1) PROVE HandOn(k)' = HandOn(k)
  BY <1>0, <1>1, <1>2, <1>4 DEF HandOn
<1>6. HandOn(n)' = IF f.kind = "call" THEN hand ELSE Inner
  BY <1>1, <1>2 DEF HandOn
<1>7. HandOn(n) = hand /\ HandOn(n + 1)' = hand'
  BY <1>0, <1>2 DEF HandOn
<1>8. HandOn(0)'.do = "idle"
  <2>1. CASE n = 0
    BY <1>0, <1>6, <1>7, <2>1 DEF StackInv
  <2>2. CASE n # 0
    BY <1>1, <1>5, <2>2 DEF StackInv
  <2> QED BY <2>1, <2>2
<1>9. ASSUME NEW k \in 1..n PROVE Level(k)'
  <2>1. Level(k) /\ frames'[k] = frames[k]
    BY <1>1, <1>2 DEF StackInv
  <2>2. frames[k].kind # "call" => k # 1
    BY <1>0, <1>1, <1>4 DEF StackInv, HandOn, Inner, Do
  <2>3. k # 1 => frames'[k - 1] = frames[k - 1]
    BY <1>1, <1>2
  <2>4. HandInv(frames[k], HandOn(k)')
    <3>1. CASE k = n
      BY <1>0, <1>1, <1>6, <1>7, <2>1, <3>1 DEF Level
    <3>2. CASE k # n
      BY <1>1, <1>5, <2>1, <3>2 DEF Level
    <3> QED BY <3>1, <3>2
  <2> QED BY <2>1, <2>2, <2>3, <2>4 DEF Level
<1>10. Level(n + 1)'
  <2>1. n + 1 - 1 = n
    BY <1>1
  <2> QED BY <1>0, <1>1, <1>2, <1>7, <2>1 DEF Level
<1> QED BY <1>1, <1>2, <1>3, <1>8, <1>9, <1>10 DEF StackInv

\* The innermost frames are gone, and frame m goes on with what it waits for.
LEMMA LevelsCut ==
  ASSUME StackInv, NEW m \in 0..(Len(frames) - 1), frames' = SubSeq(frames, 1, m),
         IF m = 0 THEN hand'.do = "idle" ELSE HandInv(frames[m], hand')
  PROVE  StackInv'
<1>0. PICK n \in Nat : n = Len(frames)
  BY StackIs DEF StackInv
<1>1. IsStack(frames) /\ n \in Nat /\ DOMAIN frames = 1..n
  BY <1>0, StackIs DEF StackInv
<1>2. m \in 0..n /\ m # n /\ m \in Nat
  BY <1>0, <1>1
<1>3. /\ IsStack(frames') /\ Len(frames') = m
      /\ \A k \in 1..m : frames'[k] = frames[k]
  BY <1>0, <1>1, <1>2, StackCut
<1>4. DOMAIN frames' = 1..m
  BY <1>3, StackIs
<1>5. ASSUME NEW k \in 0..(m - 1) PROVE HandOn(k)' = HandOn(k)
  <2>1. k + 1 \in 1..m /\ k # m /\ k # n
    BY <1>1, <1>2
  <2> QED BY <1>0, <1>3, <2>1 DEF HandOn
<1>6. HandOn(m)' = hand'
  BY <1>3 DEF HandOn
<1>7. HandOn(0)'.do = "idle"
  <2>1. CASE m = 0
    BY <1>6, <2>1
  <2>2. CASE m # 0
    BY <1>2, <1>5, <2>2 DEF StackInv
  <2> QED BY <2>1, <2>2
<1>8. ASSUME NEW k \in 1..m PROVE Level(k)'
  <2>1. k \in 1..n
    BY <1>1, <1>2
  <2>2. Level(k) /\ frames'[k] = frames[k]
    BY <1>1, <1>3, <2>1 DEF StackInv
  <2>3. frames[k].kind # "call" => k # 1
    BY <1>0, <1>1, <1>2 DEF StackInv, HandOn, Inner, Do
  <2>4. k # 1 => frames'[k - 1] = frames[k - 1]
    BY <1>2, <1>3
  <2>5. HandInv(frames[k], HandOn(k)')
    <3>1. CASE k = m
      BY <1>2, <1>6, <3>1
    <3>2. CASE k # m
      BY <1>2, <1>5, <2>2, <3>2 DEF Level
    <3> QED BY <3>1, <3>2
  <2> QED BY <2>2, <2>3, <2>4, <2>5 DEF Level
<1> QED BY <1>3, <1>4, <1>7, <1>8 DEF StackInv

\* The innermost frame changes, not what it waits for below.
LEMMA LevelsTop ==
  ASSUME StackInv, Len(frames) > 0, NEW f, frames' = [frames EXCEPT ![Len(frames)] = f],
         f.kind = Top.kind, f.part = Top.part, f.kind = "call" => f = Top,
         FrameInv(f), HandInv(f, hand')
  PROVE  StackInv'
<1>0. PICK n \in Nat : n = Len(frames)
  BY StackIs DEF StackInv
<1>1. IsStack(frames) /\ n \in Nat /\ DOMAIN frames = 1..n
  BY <1>0, StackIs DEF StackInv
<1>2. /\ IsStack(frames') /\ Len(frames') = n
      /\ \A k \in 1..(n - 1) : frames'[k] = frames[k]
      /\ frames'[n] = f
  <2>1. Len(frames) > 0 /\ IsStack(frames)
    BY <1>1
  <2> DEFINE u == [frames EXCEPT ![Len(frames)] = f]
  <2>2. /\ IsStack(u) /\ Len(u) = Len(frames)
        /\ \A k \in 1..(Len(frames) - 1) : u[k] = frames[k]
        /\ u[Len(frames)] = f
    BY <2>1, StackTop
  <2>3. frames' = u
    OBVIOUS
  <2> HIDE DEF u
  <2> QED BY <1>0, <2>2, <2>3
<1>3. DOMAIN frames' = 1..n
  BY <1>2, StackIs
<1>4. Top = frames[n]
  BY <1>0 DEF Top
<1>5. n > 0
  BY <1>0
<1>6. ASSUME NEW k \in 0..(n - 1) PROVE HandOn(k)' = HandOn(k)
  <2>1. CASE k + 1 = n
    <3>1. k # n
      BY <1>1
    <3> QED BY <1>0, <1>2, <1>4, <2>1, <3>1 DEF HandOn
  <2>2. CASE k + 1 # n
    <3>1. k # n /\ k + 1 \in 1..(n - 1)
      BY <1>1, <2>2
    <3> QED BY <1>0, <1>2, <3>1 DEF HandOn
  <2> QED BY <2>1, <2>2
<1>7. HandOn(n)' = hand'
  BY <1>2 DEF HandOn
<1>8. HandOn(0)'.do = "idle"
  BY <1>1, <1>5, <1>6 DEF StackInv
<1>9. ASSUME NEW k \in 1..n PROVE frames[k].kind # "call" => k # 1
  BY <1>0, <1>1, <1>5 DEF StackInv, HandOn, Inner, Do
<1>10. ASSUME NEW k \in 1..(n - 1) PROVE Level(k)'
  <2>1. Level(k) /\ frames'[k] = frames[k] /\ k \in 1..n
    BY <1>1, <1>2 DEF StackInv
  <2>2. k # 1 => frames'[k - 1] = frames[k - 1]
    BY <1>1, <1>2
  <2>3. HandOn(k)' = HandOn(k)
    BY <1>1, <1>6
  <2> QED BY <1>9, <2>1, <2>2, <2>3 DEF Level
<1>11. Level(n)'
  <2>1. Level(n)
    BY <1>1, <1>5 DEF StackInv
  <2>2. n # 1 => frames'[n - 1] = frames[n - 1]
    BY <1>1, <1>2, <1>5
  <2>3. f.kind # "call" => n # 1
    BY <1>1, <1>4, <1>5, <1>9
  <2> QED BY <1>2, <1>4, <1>7, <2>1, <2>2, <2>3 DEF Level
<1>12. \A k \in 1..n : k \in 1..(n - 1) \/ k = n
  BY <1>1
<1> QED BY <1>2, <1>3, <1>8, <1>10, <1>11, <1>12 DEF StackInv

\* Only what is about to be done changes.
LEMMA LevelsHand ==
  ASSUME StackInv, Len(frames) > 0, frames' = frames, HandInv(Top, hand')
  PROVE  StackInv'
<1>0. PICK n \in Nat : n = Len(frames)
  BY StackIs DEF StackInv
<1>1. IsStack(frames) /\ DOMAIN frames = 1..n /\ n > 0
  BY <1>0, StackIs DEF StackInv
<1>2. ASSUME NEW k \in 0..(n - 1) PROVE HandOn(k)' = HandOn(k)
  <2>1. k # n
    BY <1>0
  <2> QED BY <1>0, <2>1 DEF HandOn
<1>3. HandOn(n)' = hand'
  BY <1>0 DEF HandOn
<1>4. ASSUME NEW k \in 1..n PROVE HandInv(frames[k], HandOn(k)')
  <2>1. HandInv(frames[k], HandOn(k))
    BY <1>1 DEF StackInv, Level
  <2>2. CASE k = n
    BY <1>0, <1>3, <2>2 DEF Top
  <2>3. CASE k # n
    <3>1. k \in 0..(n - 1)
      BY <1>0, <2>3
    <3> QED BY <1>2, <2>1, <3>1
  <2> QED BY <2>2, <2>3
<1>5. HandOn(0)' = HandOn(0)
  BY <1>0, <1>1, <1>2
<1> QED BY <1>1, <1>4, <1>5 DEF StackInv, Level

-----------------------------------------------------------------------------
(* What the top of the stack waits for                                     *)

\* While there is something to do the innermost frame waits for it, and a container is what
\* the frame below waits for.
LEMMA TopLevel ==
  ASSUME StackInv, hand.do # "idle"
  PROVE  /\ Len(frames) \in Nat /\ Len(frames) > 0
         /\ FrameInv(Top) /\ HandInv(Top, hand)
         /\ Top.kind # "call" =>
              /\ Len(frames) - 1 > 0 /\ Top.part = Awaited(frames[Len(frames) - 1])
              /\ HandInv(frames[Len(frames) - 1], Inner)
<1>0. PICK n \in Nat : n = Len(frames)
  BY StackIs DEF StackInv
<1>1. DOMAIN frames = 1..n /\ HandOn(n) = hand
  BY <1>0, StackIs DEF StackInv, HandOn
<1>2. n # 0
  BY <1>1 DEF StackInv
<1>3. n \in 1..n /\ Level(n) /\ Top = frames[n]
  BY <1>0, <1>1, <1>2 DEF StackInv, Top
<1>4. ASSUME Top.kind # "call" PROVE n # 1 /\ HandOn(n - 1) = Inner
  <2>1. HandOn(n - 1) = Inner
    <3>1. n - 1 # n /\ n - 1 + 1 = n
      OBVIOUS
    <3> QED BY <1>0, <1>3, <1>4, <3>1 DEF HandOn
  <2>2. n # 1
    BY <2>1 DEF StackInv, Inner, Do
  <2> QED BY <2>1, <2>2
<1>5. ASSUME Top.kind # "call" PROVE n - 1 > 0 /\ Level(n - 1)
  <2>1. n - 1 \in 1..n
    BY <1>2, <1>4, <1>5
  <2> QED BY <1>1, <2>1 DEF StackInv
<1> QED BY <1>0, <1>1, <1>2, <1>3, <1>4, <1>5 DEF Level

\* A frame waits for a part.
LEMMA AwaitedIsPart ==
  ASSUME NEW f, FrameInv(f), f.kind # "call" => f.at > 0
  PROVE  /\ Awaited(f) \in Part
         /\ f.kind = "map" => f.part.items[f.at][1] \in Key
<1>1. CASE f.kind = "call"
  BY <1>1 DEF FrameInv, Awaited
<1>2. CASE f.kind = "list"
  <2>1. f.part.items \in Seq(Part) /\ f.at \in 0..Len(f.part.items) /\ f.at > 0
    BY <1>2, RecordAssumption DEF FrameInv
  <2>2. Len(f.part.items) \in Nat
    BY <2>1, LenProperties
  <2>3. f.at \in 1..Len(f.part.items)
    BY <2>1, <2>2
  <2> QED BY <1>2, <2>1, <2>3, ElementOfSeq DEF Awaited, Item
<1>3. CASE f.kind = "map"
  <2>1. f.part.items \in Seq(Key \X Part) /\ f.at \in 0..Len(f.part.items) /\ f.at > 0
    BY <1>3, RecordAssumption DEF FrameInv
  <2>2. Len(f.part.items) \in Nat
    BY <2>1, LenProperties
  <2>3. f.at \in 1..Len(f.part.items)
    BY <2>1, <2>2
  <2>4. f.part.items[f.at] \in Key \X Part
    BY <2>1, <2>3, ElementOfSeq
  <2> QED BY <1>3, <2>4 DEF Awaited, Item
<1> QED BY <1>1, <1>2, <1>3 DEF FrameInv

\* The innermost decode.
LEMMA InnermostIs ==
  ASSUME StackInv, Len(frames) > 0
  PROVE  /\ Innermost \in 1..Len(frames) /\ Innermost \in Calls
         /\ \A j \in Calls : j <= Innermost
<1>0. PICK n \in Nat : n = Len(frames)
  BY StackIs DEF StackInv
<1>1. DOMAIN frames = 1..n /\ n # 0
  BY <1>0, StackIs DEF StackInv
<1>2. frames[1].kind = "call"
  <2>1. HandOn(0) = IF frames[1].kind = "call" THEN frames[1].done ELSE Inner
    BY <1>0, <1>1 DEF HandOn
  <2> QED BY <2>1 DEF StackInv, Inner, Do
<1>3. Calls \in SUBSET (1..n) /\ 1 \in Calls
  BY <1>1, <1>2 DEF Calls
<1>4. \E k \in Calls : \A j \in Calls : j <= k
  BY <1>3, GreatestOf
<1>5. Innermost \in Calls /\ \A j \in Calls : j <= Innermost
  BY <1>4 DEF Innermost
<1> QED BY <1>0, <1>3, <1>5

\* The end of a decode: what it interrupted is about to be done as before.
LEMMA AnswerStep ==
  ASSUME StackInv, Len(frames) > 0, NEW v, Answer(v)
  PROVE  /\ StackInv'
         /\ hand'.do \in {"idle", "decode", "give", "bad key"}
         /\ InBadKey => InBadKey' \/ hand'.do = "bad key"
<1>0. PICK n \in Nat : n = Len(frames)
  BY StackIs DEF StackInv
<1>1. DOMAIN frames = 1..n /\ IsStack(frames)
  BY <1>0, StackIs DEF StackInv
<1>2. PICK c \in 1..n : c = Innermost
  BY <1>0, InnermostIs
<1>3. /\ frames[c].kind = "call" /\ hand' = frames[c].done /\ frames' = SubSeq(frames, 1, c - 1)
      /\ \A j \in Calls : j <= c
  BY <1>2, InnermostIs DEF Answer, Calls
<1>4. c - 1 \in 0..(n - 1) /\ c - 1 # n /\ c - 1 + 1 = c
  OBVIOUS
<1>5. HandOn(c - 1) = hand'
  BY <1>0, <1>3, <1>4 DEF HandOn
<1>6. StackInv'
  <2>1. CASE c - 1 = 0
    <3>1. hand'.do = "idle"
      BY <1>5, <2>1 DEF StackInv
    <3> QED BY <1>0, <1>3, <1>4, <2>1, <3>1, LevelsCut
  <2>2. CASE c - 1 # 0
    <3>1. c - 1 \in 1..n
      BY <1>4, <2>2
    <3>2. HandInv(frames[c - 1], hand')
      BY <1>1, <1>5, <3>1 DEF StackInv, Level
    <3> QED BY <1>0, <1>3, <1>4, <2>2, <3>2, LevelsCut
  <2> QED BY <2>1, <2>2
<1>7. hand'.do \in {"idle", "decode", "give", "bad key"}
  BY <1>1, <1>3 DEF StackInv, Level, FrameInv
<1>8. ASSUME NEW k \in Calls, frames[k].done.do = "bad key"
      PROVE  InBadKey' \/ hand'.do = "bad key"
  <2>1. CASE k = c
    BY <1>3, <1>8, <2>1
  <2>2. CASE k # c
    <3>1. k \in 1..(c - 1) /\ c - 1 \in 0..n
      <4>1. k \in 1..n /\ k <= c
        BY <1>1, <1>3, <1>8 DEF Calls
      <4> QED BY <1>4, <2>2, <4>1
    <3>2. /\ IsStack(frames') /\ Len(frames') = c - 1
          /\ frames'[k] = frames[k]
      BY <1>0, <1>1, <1>3, <3>1, StackCut
    <3>3. k \in Calls'
      BY <1>8, <3>1, <3>2, StackIs DEF Calls
    <3> QED BY <1>8, <3>2, <3>3 DEF InBadKey
  <2> QED BY <2>1, <2>2
<1> QED BY <1>6, <1>7, <1>8 DEF InBadKey

-----------------------------------------------------------------------------
(* Every step keeps the stack                                              *)

Doing == {"idle", "decode", "next", "give", "set", "bad key"}

\* A frame with a field replaced.
LEMMA FrameWith ==
  ASSUME NEW f, f = [kind |-> f.kind, part |-> f.part, at |-> f.at, done |-> f.done]
  PROVE  /\ [f EXCEPT !.at = @ + 1]
              = [kind |-> f.kind, part |-> f.part, at |-> f.at + 1, done |-> f.done]
         /\ \A done : [f EXCEPT !.done = done]
              = [kind |-> f.kind, part |-> f.part, at |-> f.at, done |-> done]
<1>1. ASSUME NEW kind, NEW part, NEW at, NEW done, NEW new,
             f = [kind |-> kind, part |-> part, at |-> at, done |-> done]
      PROVE  /\ [f EXCEPT !.at = new] = [kind |-> kind, part |-> part, at |-> new, done |-> done]
             /\ [f EXCEPT !.done = new] = [kind |-> kind, part |-> part, at |-> at, done |-> new]
  BY <1>1
<1> QED BY <1>1

\* A decode begins, and remembers what it interrupts.
LEMMA BeginStep ==
  ASSUME StackInv, NEW r \in Part, Begin(r), hand.do \in {"idle", "decode", "give", "bad key"}
  PROVE  StackInv' /\ hand'.do \in Doing
<1> DEFINE f == Frame("call", r, hand)
<1>1. /\ f.kind = "call" /\ f.part = r /\ f.done = hand
      /\ f = [kind |-> f.kind, part |-> f.part, at |-> f.at, done |-> f.done]
  BY DEF Frame
<1>2. frames' = Append(frames, f) /\ hand' = Do("decode", r)
  BY DEF Begin
<1> HIDE DEF f
<1>3. FrameInv(f)
  BY <1>1 DEF FrameInv
<1>4. HandInv(f, hand')
  BY <1>1, <1>2 DEF HandInv, Do, Awaited
<1> QED BY <1>1, <1>2, <1>3, <1>4, LevelsPush DEF Do, Doing

\* A lookup, or a collection that looks up an address, begins a decode.
LEMMA CallStep ==
  ASSUME StackInv, Call \/ Collect
  PROVE  StackInv' /\ hand'.do \in Doing
<1>1. PICK r \in Record : Begin(r)
  BY DEF Call, Collect
<1>2. r \in Part
  BY RecordAssumption
<1>3. hand.do \in {"idle", "decode", "give", "bad key"}
  BY DEF Call, Collect
<1> QED BY <1>1, <1>2, <1>3, BeginStep

\* A scalar is given, bad data is an error, a container is begun with nothing built.
LEMMA DecodeStep ==
  ASSUME StackInv, Decode
  PROVE  StackInv' /\ hand'.do \in Doing
<1> DEFINE r == hand.with
<1>1. hand.do = "decode"
  BY DEF Decode
<1>2. /\ Len(frames) > 0 /\ FrameInv(Top) /\ HandInv(Top, hand)
  BY <1>1, TopLevel
<1>3. r = Awaited(Top) /\ (Top.kind # "call" => Top.at > 0 /\ Built(Top, Top.at - 1))
  BY <1>1, <1>2 DEF HandInv
<1>4. r \in Part
  BY <1>2, <1>3, AwaitedIsPart
<1>5. CASE r.kind = "scalar"
  <2>1. hand' = Do("give", PyScalar(r.items)) /\ frames' = frames
    BY <1>5 DEF Decode
  <2>2. PyOf[r] = PyScalar(r.items)
    BY <1>4, <1>5, PyOfPart DEF PyOfParts
  <2>3. HandInv(Top, hand')
    BY <1>3, <2>1, <2>2 DEF HandInv, Do, IsError, PyScalar
  <2> QED BY <1>2, <2>1, <2>3, LevelsHand DEF Do, Doing
<1>6. CASE r.kind = "unreadable"
  <2>1. Answer(PyError("InvalidDatabaseError"))
    BY <1>6 DEF Decode, Fail
  <2> QED BY <1>2, <2>1, AnswerStep DEF Doing
<1>7. CASE r.kind \in {"map", "list"}
  <2> DEFINE f == Frame(r.kind, r, IF r.kind = "map" THEN Empty ELSE <<>>)
  <2>1. frames' = Append(frames, f) /\ hand' = Do("next", 0)
    BY <1>7 DEF Decode
  <2>2. /\ f.kind = r.kind /\ f.part = r /\ f.at = 0
        /\ f.done = IF r.kind = "map" THEN Empty ELSE <<>>
        /\ f = [kind |-> f.kind, part |-> f.part, at |-> f.at, done |-> f.done]
    BY DEF Frame
  <2> HIDE DEF f
  <2>3. Len(r.items) \in Nat
    BY <1>4, <1>7, RecordAssumption, LenProperties
  <2>4. FrameInv(f)
    <3>1. 0 \in 0..Len(r.items)
      BY <2>3
    <3> QED BY <1>4, <1>7, <2>2, <3>1 DEF FrameInv
  <2>5. ListOf(PyOf, r.items, 0) = <<>> /\ DictOf(PyOf, r.items, 0) = Empty
    <3>1. 1..0 = {}
      OBVIOUS
    <3>2. <<>> = [k \in {} |-> PyOf[r.items[k]]]
      OBVIOUS
    <3>3. {Str(r.items[k][1]) : k \in {}} = {}
      OBVIOUS
    <3> QED BY <3>1, <3>2, <3>3 DEF ListOf, DictOf, Empty
  <2>6. Built(f, 0)
    BY <1>7, <2>2, <2>5 DEF Built
  <2>7. HandInv(f, hand')
    BY <1>7, <2>1, <2>2, <2>6 DEF HandInv, Do
  <2>8. HandInv(Top, Inner) /\ Top = frames[Len(frames)]
    BY <1>3 DEF HandInv, Inner, Do, Top
  <2>9. f.kind # "call" /\ f.part = Awaited(frames[Len(frames)])
    BY <1>3, <1>7, <2>2, <2>8
  <2> QED BY <1>2, <2>1, <2>4, <2>7, <2>8, <2>9, LevelsPush DEF Do, Doing
<1> QED BY <1>4, <1>5, <1>6, <1>7, RecordAssumption

\* A container is complete: it is what the frame below waits for.
LEMMA PopStep ==
  ASSUME StackInv, hand.do = "next", Top.kind \in {"map", "list"}, frames' = Pop,
         NEW v, v = PyOf[Top.part], ~IsError(v), hand' = Do("give", v)
  PROVE  StackInv' /\ hand'.do \in Doing
<1>1. /\ Len(frames) \in Nat /\ Len(frames) - 1 > 0 /\ Top.part = Awaited(frames[Len(frames) - 1])
      /\ HandInv(frames[Len(frames) - 1], Inner)
  BY TopLevel
<1>2. PICK m \in Nat : m = Len(frames) - 1
  BY <1>1
<1>3. m \in 0..(Len(frames) - 1) /\ m # 0
  BY <1>1, <1>2
<1>4. HandInv(frames[m], hand')
  BY <1>1, <1>2 DEF HandInv, Inner, Do
<1>5. frames' = SubSeq(frames, 1, m)
  BY <1>2 DEF Pop
<1> QED BY <1>3, <1>4, <1>5, LevelsCut DEF Do, Doing

\* The next item is read: it is what the frame waits for.
LEMMA ReadStep ==
  ASSUME StackInv, hand.do = "next", Top.kind \in {"map", "list"}, ~AtEnd, Read,
         hand'.do = "decode",
         hand'.with = IF Top.kind = "list" THEN Top.part.items[Top.at + 1]
                      ELSE Top.part.items[Top.at + 1][2]
  PROVE  StackInv'
<1>1. /\ Len(frames) \in Nat /\ Len(frames) > 0 /\ FrameInv(Top) /\ HandInv(Top, hand)
  BY TopLevel
<1>2. Built(Top, Top.at) /\ Top.at \in 0..Len(Top.part.items)
  BY <1>1 DEF HandInv, FrameInv
<1> DEFINE f == [kind |-> Top.kind, part |-> Top.part, at |-> Top.at + 1, done |-> Top.done]
<1>3. frames' = [frames EXCEPT ![Len(frames)] = f]
  <2>1. [Top EXCEPT !.at = @ + 1] = f
    BY <1>1, FrameWith DEF FrameInv
  <2> QED BY <2>1 DEF Read, Top
<1>4. /\ f.kind = Top.kind /\ f.part = Top.part /\ f.at = Top.at + 1 /\ f.done = Top.done
      /\ f = [kind |-> f.kind, part |-> f.part, at |-> f.at, done |-> f.done]
  OBVIOUS
<1> HIDE DEF f
<1>5. Len(Top.part.items) \in Nat
  BY <1>1, RecordAssumption, LenProperties DEF FrameInv
<1>6. Top.at + 1 \in 0..Len(Top.part.items) /\ Top.at + 1 > 0 /\ Top.at + 1 - 1 = Top.at
  <2>1. Top.at # Len(Top.part.items)
    BY DEF AtEnd
  <2> QED BY <1>2, <1>5, <2>1
<1>7. FrameInv(f)
  BY <1>1, <1>4, <1>6 DEF FrameInv
<1>8. Built(f, f.at - 1)
  BY <1>2, <1>4, <1>6 DEF Built
<1>9. hand'.with = Awaited(f)
  BY <1>4 DEF Awaited, Item
<1>10. HandInv(f, hand')
  BY <1>4, <1>6, <1>8, <1>9 DEF HandInv
<1>11. f.kind # "call"
  BY <1>4
<1> QED BY <1>1, <1>3, <1>4, <1>7, <1>10, <1>11, LevelsTop

\* A list is complete, or its next element is decoded.
LEMMA NextElementStep ==
  ASSUME StackInv, NextElement
  PROVE  StackInv' /\ hand'.do \in Doing
<1>1. hand.do = "next" /\ Top.kind = "list"
  BY DEF NextElement
<1>2. FrameInv(Top) /\ HandInv(Top, hand)
  BY <1>1, TopLevel
<1>3. Built(Top, Top.at) /\ Top.part \in Part /\ Top.part.kind = "list"
  BY <1>1, <1>2 DEF HandInv, FrameInv
<1>4. CASE AtEnd
  <2>1. frames' = Pop /\ hand' = Do("give", PyList(Top.done))
    BY <1>4 DEF NextElement
  <2>2. DOMAIN Top.part.items = 1..Len(Top.part.items)
    BY <1>3, RecordAssumption, LenProperties
  <2>3. PyOf[Top.part] = PyList(Top.done)
    BY <1>1, <1>3, <1>4, <2>2, PyOfPart DEF PyOfParts, Built, AtEnd
  <2>4. ~IsError(PyList(Top.done))
    BY DEF IsError, PyList
  <2> QED BY <1>1, <2>1, <2>3, <2>4, PopStep
<1>5. CASE ~AtEnd
  <2>1. Read /\ hand' = Do("decode", Top.part.items[Top.at + 1])
    BY <1>5 DEF NextElement
  <2> QED BY <1>1, <1>5, <2>1, ReadStep DEF Do, Doing
<1> QED BY <1>4, <1>5

\* A map is complete, or the value of its next key is decoded.
LEMMA NextKeyStep ==
  ASSUME StackInv, NextKey
  PROVE  StackInv' /\ hand'.do \in Doing
<1>1. hand.do = "next" /\ Top.kind = "map"
  BY DEF NextKey
<1>2. FrameInv(Top) /\ HandInv(Top, hand)
  BY <1>1, TopLevel
<1>3. Built(Top, Top.at) /\ Top.part \in Part /\ Top.part.kind = "map"
  BY <1>1, <1>2 DEF HandInv, FrameInv
<1>4. CASE AtEnd
  <2>1. frames' = Pop /\ hand' = Do("give", PyDict(Top.done))
    BY <1>4 DEF NextKey
  <2>2. DOMAIN Top.part.items = 1..Len(Top.part.items)
    BY <1>3, RecordAssumption, LenProperties
  <2>3. PyOf[Top.part] = PyDict(Top.done)
    BY <1>1, <1>3, <1>4, <2>2, PyOfPart DEF PyOfParts, Built, AtEnd
  <2>4. ~IsError(PyDict(Top.done))
    BY DEF IsError, PyDict
  <2> QED BY <1>1, <2>1, <2>3, <2>4, PopStep
<1>5. CASE ~AtEnd
  <2>1. Read /\ hand' = Do("decode", Top.part.items[Top.at + 1][2])
    BY <1>5 DEF NextKey
  <2> QED BY <1>1, <1>5, <2>1, ReadStep DEF Do, Doing
<1> QED BY <1>4, <1>5

\* One more item is built.
LEMMA BuildStep ==
  ASSUME StackInv, hand.do \in {"give", "set"}, Top.kind \in {"map", "list"}, NEW done,
         frames' = [frames EXCEPT ![Len(frames)].done = done], hand' = Do("next", 0),
         Top.kind = "list" => done = Append(Top.done, hand.with),
         Top.kind = "map" => /\ TopKey \notin BadKey
                             /\ done = With(Top.done, Str(TopKey), hand.with)
  PROVE  StackInv' /\ hand'.do \in Doing
<1>1. /\ Len(frames) \in Nat /\ Len(frames) > 0 /\ FrameInv(Top) /\ HandInv(Top, hand)
  BY TopLevel
<1>2. /\ Built(Top, Top.at - 1) /\ Top.at \in 0..Len(Top.part.items) /\ Top.at > 0
      /\ hand.with = PyOf[Awaited(Top)] /\ ~IsError(hand.with)
  BY <1>1 DEF HandInv, FrameInv
<1>3. PICK n \in Nat : n = Top.at - 1 /\ n + 1 = Top.at
  <2>1. Len(Top.part.items) \in Nat
    BY <1>1, RecordAssumption, LenProperties DEF FrameInv
  <2> QED BY <1>2, <2>1
<1> DEFINE f == [kind |-> Top.kind, part |-> Top.part, at |-> Top.at, done |-> done]
<1>4. frames' = [frames EXCEPT ![Len(frames)] = f]
  <2>1. [Top EXCEPT !.done = done] = f
    BY <1>1, FrameWith DEF FrameInv
  <2> QED BY <2>1 DEF Top
<1>5. /\ f.kind = Top.kind /\ f.part = Top.part /\ f.at = Top.at /\ f.done = done
      /\ f = [kind |-> f.kind, part |-> f.part, at |-> f.at, done |-> f.done]
  OBVIOUS
<1> HIDE DEF f
<1>6. FrameInv(f)
  BY <1>1, <1>5 DEF FrameInv
<1>7. \A j \in 1..(n + 1) : j \in 1..n \/ j = n + 1
  OBVIOUS
<1>8. ASSUME Top.kind = "list" PROVE HandInv(f, hand')
  <2>1. hand.with = PyOf[Top.part.items[n + 1]]
    BY <1>2, <1>3, <1>8 DEF Awaited, Item
  <2>2. Top.done = ListOf(PyOf, Top.part.items, n)
    BY <1>2, <1>3, <1>8 DEF Built
  <2>3. done = ListOf(PyOf, Top.part.items, n + 1)
    BY <1>8, <2>1, <2>2, ListGrows
  <2>4. \A j \in 1..(n + 1) : ~IsError(PyOf[Top.part.items[j]])
    BY <1>2, <1>3, <1>7, <1>8, <2>1 DEF Built
  <2>5. Built(f, f.at)
    BY <1>3, <1>5, <1>8, <2>3, <2>4 DEF Built
  <2> QED BY <1>5, <1>8, <2>5 DEF HandInv, Do
<1>9. ASSUME Top.kind = "map" PROVE HandInv(f, hand')
  <2>1. hand.with = PyOf[Top.part.items[n + 1][2]] /\ TopKey = Top.part.items[n + 1][1]
    BY <1>2, <1>3, <1>9 DEF Awaited, Item, TopKey
  <2>2. Top.done = DictOf(PyOf, Top.part.items, n)
    BY <1>2, <1>3, <1>9 DEF Built
  <2>3. done = DictOf(PyOf, Top.part.items, n + 1)
    BY <1>9, <2>1, <2>2, DictGrows
  <2>4. \A j \in 1..(n + 1) : /\ Top.part.items[j][1] \notin BadKey
                              /\ ~IsError(PyOf[Top.part.items[j][2]])
    BY <1>2, <1>3, <1>7, <1>9, <2>1 DEF Built
  <2>5. Built(f, f.at)
    BY <1>3, <1>5, <1>9, <2>3, <2>4 DEF Built
  <2> QED BY <1>5, <1>9, <2>5 DEF HandInv, Do
<1>10. HandInv(f, hand') /\ f.kind # "call"
  BY <1>5, <1>8, <1>9
<1> QED BY <1>1, <1>4, <1>5, <1>6, <1>10, LevelsTop DEF Do, Doing

\* A value goes to the caller, into the list, or waits for its key to be set.
LEMMA GiveStep ==
  ASSUME StackInv, Give
  PROVE  StackInv' /\ hand'.do \in Doing
<1>1. hand.do = "give" /\ Len(frames) > 0 /\ FrameInv(Top) /\ HandInv(Top, hand)
  BY TopLevel DEF Give
<1>2. CASE Top.kind = "call"
  <2>1. Answer(hand.with)
    BY <1>1, <1>2 DEF Give
  <2> QED BY <1>1, <2>1, AnswerStep DEF Doing
<1>3. CASE Top.kind = "list"
  <2>1. /\ frames' = [frames EXCEPT ![Len(frames)].done = Append(@, hand.with)]
        /\ hand' = Do("next", 0)
    BY <1>1, <1>3 DEF Give
  <2>2. frames' = [frames EXCEPT ![Len(frames)].done = Append(Top.done, hand.with)]
    BY <2>1 DEF Top
  <2> QED BY <1>1, <1>3, <2>1, <2>2, BuildStep
<1>4. CASE Top.kind = "map" /\ borrowed
  <2>1. Answer(PyError("PanicException"))
    BY <1>1, <1>4 DEF Give, Fail
  <2> QED BY <1>1, <2>1, AnswerStep DEF Doing
<1>5. CASE Top.kind = "map" /\ ~borrowed
  <2>1. hand' = Do("set", hand.with) /\ frames' = frames
    BY <1>1, <1>5 DEF Give
  <2>2. HandInv(Top, hand')
    BY <1>1, <1>5, <2>1 DEF HandInv, Do
  <2> QED BY <1>1, <2>1, <2>2, LevelsHand DEF Do, Doing
<1> QED BY <1>1, <1>2, <1>3, <1>4, <1>5 DEF FrameInv

\* With a cache that is right, a hit and a miss set the same key.
CacheOK == /\ \A k \in DOMAIN cache : k \notin BadKey
           /\ IsFiniteSet(DOMAIN cache) /\ Cardinality(DOMAIN cache) <= MaxKeys
           /\ CacheInv

\* Set sets the str of the key that was read, unless it is not UTF-8.
LEMMA SetIs ==
  ASSUME CacheOK, Set
  PROVE  \/ SetItem(Str(TopKey)) /\ TopKey \notin BadKey
         \/ hand' = Do("bad key", 0) /\ UNCHANGED <<frames, answer, borrowed>>
<1>1. CASE TopKey \in DOMAIN cache
  BY <1>1 DEF CacheOK, CacheInv, Set
<1>2. CASE TopKey \notin DOMAIN cache /\ TopKey \in BadKey
  BY <1>2 DEF Set
<1>3. CASE TopKey \notin DOMAIN cache /\ TopKey \notin BadKey
  BY <1>3 DEF Set
<1> QED BY <1>1, <1>2, <1>3

\* Setting a key builds one more item of the map.
LEMMA SetStep ==
  ASSUME StackInv, CacheOK, Set
  PROVE  StackInv' /\ hand'.do \in Doing
<1>1. hand.do = "set" /\ Len(frames) > 0 /\ FrameInv(Top) /\ HandInv(Top, hand)
  BY TopLevel DEF Set
<1>2. Top.kind = "map"
  BY <1>1 DEF HandInv
<1>3. CASE SetItem(Str(TopKey)) /\ TopKey \notin BadKey
  <2>1. /\ frames' = [frames EXCEPT ![Len(frames)].done = With(@, Str(TopKey), hand.with)]
        /\ hand' = Do("next", 0)
    BY <1>3 DEF SetItem
  <2>2. frames' = [frames EXCEPT ![Len(frames)].done = With(Top.done, Str(TopKey), hand.with)]
    BY <2>1 DEF Top
  <2> QED BY <1>1, <1>2, <1>3, <2>1, <2>2, BuildStep
<1>4. CASE hand' = Do("bad key", 0) /\ UNCHANGED <<frames, answer, borrowed>>
  <2>1. HandInv(Top, hand')
    BY <1>1, <1>2, <1>4 DEF HandInv, Do
  <2> QED BY <1>1, <1>4, <2>1, LevelsHand DEF Do, Doing
<1> QED BY <1>3, <1>4, SetIs

\* An error while a key is set ends the decode.
LEMMA FailStep ==
  ASSUME StackInv, SetFails \/ RefuseKey
  PROVE  StackInv' /\ hand'.do \in Doing
<1>1. hand.do # "idle" /\ Answer(PyError("InvalidDatabaseError"))
  BY DEF SetFails, RefuseKey, Fail
<1> QED BY <1>1, TopLevel, AnswerStep DEF Doing

\* Every step keeps the stack.
LEMMA StackStep ==
  ASSUME StackInv, CacheOK, Next
  PROVE  StackInv' /\ hand'.do \in Doing
BY CallStep, DecodeStep, NextElementStep, NextKeyStep, GiveStep, SetStep, FailStep DEF Next

-----------------------------------------------------------------------------
(* The cache                                                               *)

\* A new entry keeps the cache right and within its limit.
LEMMA EntryAdded ==
  ASSUME CacheOK, NEW key, key \notin BadKey, key \notin DOMAIN cache,
         Cardinality(DOMAIN cache) < MaxKeys, cache' = With(cache, key, Str(key))
  PROVE  CacheOK'
<1>1. DOMAIN cache' = DOMAIN cache \cup {key}
  BY DEF With
<1>2. /\ IsFiniteSet(DOMAIN cache')
      /\ Cardinality(DOMAIN cache') = Cardinality(DOMAIN cache) + 1
  BY <1>1, FS_AddElement DEF CacheOK
<1>3. Cardinality(DOMAIN cache) \in Nat /\ MaxKeys \in Nat
  BY DecoderAssumption, FS_CardinalityType DEF CacheOK
<1>4. Cardinality(DOMAIN cache') <= MaxKeys
  BY <1>2, <1>3
<1>5. \A k \in DOMAIN cache' : k \notin BadKey /\ cache'[k] = Str(k)
  BY <1>1 DEF CacheOK, CacheInv, With
<1> QED BY <1>2, <1>4, <1>5 DEF CacheOK, CacheInv

\* Every step keeps the cache right and within its limit.
LEMMA CacheStep ==
  ASSUME CacheOK, Next
  PROVE  CacheOK'
<1>1. ASSUME cache' = cache PROVE CacheOK'
  BY <1>1 DEF CacheOK, CacheInv
<1>2. CASE Call \/ Collect
  <2>1. cache' = cache
    BY <1>2 DEF Call, Collect, Begin
  <2> QED BY <1>1, <2>1
<1>3. CASE Decode \/ NextElement \/ NextKey
  BY <1>1, <1>3 DEF Decode, NextElement, NextKey
<1>4. CASE Give \/ RefuseKey
  BY <1>1, <1>4 DEF Give, RefuseKey
<1>5. CASE Set
  <2>1. CASE TopKey \in DOMAIN cache \/ TopKey \in BadKey
    BY <1>1, <1>5, <2>1 DEF Set
  <2>2. CASE TopKey \notin DOMAIN cache /\ TopKey \notin BadKey
    <3>1. IF Cardinality(DOMAIN cache) < MaxKeys
          THEN cache' = With(cache, TopKey, Str(TopKey)) ELSE cache' = cache
      BY <1>5, <2>2 DEF Set
    <3> QED BY <1>1, <2>2, <3>1, EntryAdded
  <2> QED BY <2>1, <2>2
<1>6. CASE SetFails
  BY <1>1, <1>6, EntryAdded DEF SetFails
<1> QED BY <1>2, <1>3, <1>4, <1>5, <1>6 DEF Next

-----------------------------------------------------------------------------
(* The borrow                                                              *)

\* A step that leaves the interrupted decodes where they are.
CallsStay == \A k \in DOMAIN frames : frames[k].kind = "call" =>
               /\ k \in DOMAIN frames' /\ frames'[k].kind = "call"
               /\ frames'[k].done = frames[k].done

\* Such a step keeps what a finalizer has interrupted.
LEMMA StillInBadKey ==
  ASSUME CallsStay, InBadKey
  PROVE  InBadKey'
<1>1. PICK k \in Calls : frames[k].done.do = "bad key"
  BY DEF InBadKey
<1>2. k \in DOMAIN frames' /\ frames'[k].kind = "call" /\ frames'[k].done = frames[k].done
  BY <1>1 DEF CallsStay, Calls
<1> QED BY <1>1, <1>2 DEF InBadKey, Calls

\* A frame on top leaves the decodes below it.
LEMMA PushKeeps ==
  ASSUME StackInv, NEW f, frames' = Append(frames, f)
  PROVE  /\ CallsStay
         /\ Len(frames) + 1 \in DOMAIN frames' /\ frames'[Len(frames) + 1] = f
<1>1. IsStack(frames)
  BY DEF StackInv
<1>2. /\ IsStack(frames') /\ Len(frames') = Len(frames) + 1
      /\ \A k \in 1..Len(frames) : frames'[k] = frames[k]
      /\ frames'[Len(frames) + 1] = f
  BY <1>1, StackPush
<1>3. /\ DOMAIN frames = 1..Len(frames) /\ DOMAIN frames' = 1..Len(frames')
      /\ Len(frames) \in Nat
  BY <1>1, <1>2, StackIs
<1>4. \A n \in Nat : n + 1 \in 1..(n + 1) /\ 1..n \subseteq 1..(n + 1)
  OBVIOUS
<1> QED BY <1>2, <1>3, <1>4 DEF CallsStay

\* The end of a container leaves the decodes below it.
LEMMA PopKeeps ==
  ASSUME StackInv, hand.do = "next", Top.kind \in {"map", "list"}, frames' = Pop
  PROVE  CallsStay
<1>1. PICK n \in Nat : n = Len(frames) /\ n > 0
  BY TopLevel
<1>2. IsStack(frames) /\ DOMAIN frames = 1..n /\ n - 1 \in 0..n
  BY <1>1, StackIs DEF StackInv
<1>3. frames' = SubSeq(frames, 1, n - 1)
  BY <1>1 DEF Pop
<1>4. /\ IsStack(frames') /\ Len(frames') = n - 1
      /\ \A k \in 1..(n - 1) : frames'[k] = frames[k]
  BY <1>1, <1>2, <1>3, StackCut
<1>5. DOMAIN frames' = 1..(n - 1)
  BY <1>4, StackIs
<1>6. \A k \in 1..n : k = n \/ k \in 1..(n - 1)
  OBVIOUS
<1>7. frames[n].kind # "call"
  BY <1>1 DEF Top
<1> QED BY <1>2, <1>4, <1>5, <1>6, <1>7 DEF CallsStay

\* So does a change of the container on top.
LEMMA TopKeeps ==
  ASSUME StackInv, Len(frames) > 0, Top.kind \in {"map", "list"}, NEW f,
         frames' = [frames EXCEPT ![Len(frames)] = f]
  PROVE  CallsStay
<1>1. DOMAIN frames' = DOMAIN frames
  OBVIOUS
<1>2. \A k \in DOMAIN frames : k # Len(frames) => frames'[k] = frames[k]
  OBVIOUS
<1> QED BY <1>1, <1>2 DEF CallsStay, Top

\* A decode that ends with the RefCell borrowed was inside the creation of the exception.
LEMMA AnswerKeepsBorrow ==
  ASSUME StackInv, BorrowInv, hand.do \in {"decode", "give"}, NEW v, Answer(v), borrowed' = borrowed
  PROVE  BorrowInv'
<1>1. Len(frames) > 0
  BY TopLevel
<1>2. InBadKey => InBadKey' \/ hand'.do = "bad key"
  BY <1>1, AnswerStep
<1> QED BY <1>2 DEF BorrowInv

\* The RefCell is borrowed only while a key is set or refused.
LEMMA BorrowStep ==
  ASSUME StackInv, BorrowInv, borrowed \in BOOLEAN, CacheOK, Next
  PROVE  BorrowInv' /\ borrowed' \in BOOLEAN
<1>1. CASE Call \/ Collect
  <2>1. PICK r \in Record : Begin(r)
    BY <1>1 DEF Call, Collect
  <2> DEFINE f == Frame("call", r, hand)
  <2>2. f.kind = "call" /\ f.done = hand
    BY DEF Frame
  <2>3. frames' = Append(frames, f) /\ borrowed' = borrowed
    BY <2>1 DEF Begin
  <2> HIDE DEF f
  <2>4. /\ CallsStay
        /\ Len(frames) + 1 \in DOMAIN frames' /\ frames'[Len(frames) + 1] = f
    BY <2>3, PushKeeps
  <2>5. hand.do = "bad key" => InBadKey'
    BY <2>2, <2>4 DEF InBadKey, Calls
  <2>6. hand.do # "set"
    BY <1>1 DEF Call, Collect
  <2> QED BY <2>3, <2>4, <2>5, <2>6, StillInBadKey DEF BorrowInv
<1>2. CASE Decode
  <2>1. hand.do = "decode" /\ borrowed' = borrowed
    BY <1>2 DEF Decode
  <2>2. CASE hand.with.kind = "scalar"
    <3>1. frames' = frames
      BY <1>2, <2>2 DEF Decode
    <3>2. CallsStay
      BY <3>1 DEF CallsStay
    <3> QED BY <2>1, <3>2, StillInBadKey DEF BorrowInv
  <2>3. CASE hand.with.kind = "unreadable"
    <3>1. Answer(PyError("InvalidDatabaseError"))
      BY <1>2, <2>3 DEF Decode, Fail
    <3> QED BY <2>1, <3>1, AnswerKeepsBorrow
  <2>4. CASE hand.with.kind \notin {"scalar", "unreadable"}
    <3>1. CallsStay
      BY <1>2, <2>4, PushKeeps DEF Decode
    <3> QED BY <2>1, <3>1, StillInBadKey DEF BorrowInv
  <2> QED BY <2>2, <2>3, <2>4
<1>3. CASE NextElement \/ NextKey
  <2>1. /\ hand.do = "next" /\ Top.kind \in {"map", "list"} /\ borrowed' = borrowed
        /\ frames' = Pop \/ Read
    BY <1>3 DEF NextElement, NextKey
  <2>2. CallsStay
    <3>1. CASE Read
      BY <2>1, <3>1, TopLevel, TopKeeps DEF Read
    <3> QED BY <2>1, <3>1, PopKeeps
  <2> QED BY <2>1, <2>2, StillInBadKey DEF BorrowInv
<1>4. CASE Give
  <2>1. hand.do = "give" /\ FrameInv(Top) /\ Len(frames) > 0
    BY <1>4, TopLevel DEF Give
  <2>2. CASE Top.kind = "call"
    <3>1. Answer(hand.with) /\ borrowed' = borrowed
      BY <1>4, <2>2 DEF Give
    <3> QED BY <2>1, <3>1, AnswerKeepsBorrow
  <2>3. CASE Top.kind = "list"
    <3>1. CallsStay /\ borrowed' = borrowed
      BY <1>4, <2>1, <2>3, TopKeeps DEF Give
    <3> QED BY <2>1, <3>1, StillInBadKey DEF BorrowInv
  <2>4. CASE Top.kind = "map" /\ borrowed
    <3>1. Answer(PyError("PanicException")) /\ borrowed' = borrowed
      BY <1>4, <2>4 DEF Give, Fail
    <3> QED BY <2>1, <3>1, AnswerKeepsBorrow
  <2>5. CASE Top.kind = "map" /\ ~borrowed
    <3>1. borrowed' = TRUE /\ hand' = Do("set", hand.with)
      BY <1>4, <2>5 DEF Give
    <3> QED BY <3>1 DEF BorrowInv, Do
  <2> QED BY <2>1, <2>2, <2>3, <2>4, <2>5 DEF FrameInv
<1>5. CASE Set
  <2>1. CASE SetItem(Str(TopKey))
    BY <2>1 DEF SetItem, BorrowInv
  <2>2. CASE hand' = Do("bad key", 0) /\ UNCHANGED <<frames, answer, borrowed>>
    <3>1. hand'.do = "bad key" /\ borrowed' = borrowed
      BY <2>2 DEF Do
    <3> QED BY <3>1 DEF BorrowInv
  <2> QED BY <1>5, <2>1, <2>2, SetIs
<1>6. CASE SetFails \/ RefuseKey
  BY <1>6 DEF SetFails, RefuseKey, BorrowInv
<1> QED BY <1>1, <1>2, <1>3, <1>4, <1>5, <1>6 DEF Next

-----------------------------------------------------------------------------
(* The answer                                                              *)

\* A failed lookup returns nothing.
LEMMA FailIsError ==
  ASSUME NEW e, Fail(e)
  PROVE  ResultIsRecord'
BY DEF Fail, Answer, ResultIsRecord, IsError, PyError

\* What is given to a caller is the value of its record.
LEMMA ResultStep ==
  ASSUME StackInv, CacheOK, ResultIsRecord, Next
  PROVE  ResultIsRecord'
<1>1. ASSUME answer' = answer PROVE ResultIsRecord'
  BY <1>1 DEF ResultIsRecord
<1>2. CASE Call \/ Collect
  <2>1. answer' = answer
    BY <1>2 DEF Call, Collect, Begin
  <2> QED BY <1>1, <2>1
<1>3. CASE Decode
  <2>1. answer' = answer \/ Fail("InvalidDatabaseError")
    BY <1>3 DEF Decode
  <2> QED BY <1>1, <2>1, FailIsError
<1>4. CASE NextElement \/ NextKey
  BY <1>1, <1>4 DEF NextElement, NextKey
<1>5. CASE Give
  <2>1. /\ hand.do = "give" /\ FrameInv(Top) /\ HandInv(Top, hand)
        /\ Len(frames) \in Nat /\ Len(frames) > 0
    BY <1>5, TopLevel DEF Give
  <2>2. CASE Top.kind # "call"
    <3>1. answer' = answer \/ Fail("PanicException")
      BY <1>5, <2>1, <2>2 DEF Give, FrameInv
    <3> QED BY <1>1, <3>1, FailIsError
  <2>3. CASE Top.kind = "call"
    <3>1. Innermost = Len(frames)
      <4>1. Len(frames) \in Calls
        BY <2>1, <2>3, StackIs DEF Calls, StackInv, Top
      <4>2. Innermost \in 1..Len(frames) /\ Len(frames) <= Innermost
        BY <2>1, <4>1, InnermostIs
      <4> QED BY <2>1, <4>2
    <3>2. answer' = [record |-> Top.part, value |-> hand.with]
      BY <1>5, <2>3, <3>1 DEF Give, Answer, Top
    <3>3. hand.with = PyOf[Top.part]
      BY <2>1, <2>3 DEF HandInv, Awaited
    <3> QED BY <3>2, <3>3 DEF ResultIsRecord
  <2> QED BY <2>2, <2>3
<1>6. CASE Set
  BY <1>1, <1>6, SetIs DEF SetItem
<1>7. CASE SetFails \/ RefuseKey
  BY <1>7, FailIsError DEF SetFails, RefuseKey
<1> QED BY <1>2, <1>3, <1>4, <1>5, <1>6, <1>7 DEF Next

-----------------------------------------------------------------------------
(* The inductive invariant                                                 *)

IInv == /\ StackInv /\ CacheOK /\ BorrowInv /\ ResultIsRecord
        /\ borrowed \in BOOLEAN /\ hand.do \in Doing

\* The invariant holds at first,
LEMMA InitIInv == Init => IInv
<1> SUFFICES ASSUME Init PROVE IInv
  OBVIOUS
<1>1. /\ Len(frames) = 0 /\ DOMAIN frames = {} /\ hand.do = "idle"
      /\ frames = [k \in 1..0 |-> frames[k]]
  BY DEF Init, Do
<1>2. StackInv
  BY <1>1 DEF StackInv, IsStack, HandOn
<1>3. CacheOK
  <2>1. DOMAIN cache = {}
    BY DEF Init, Empty
  <2>2. IsFiniteSet({}) /\ Cardinality({}) = 0
    BY FS_EmptySet
  <2> QED BY <2>1, <2>2, DecoderAssumption DEF CacheOK, CacheInv
<1>4. ResultIsRecord
  BY DEF Init, Nothing, ResultIsRecord, IsError, PyError
<1>5. borrowed = FALSE
  BY DEF Init
<1> QED BY <1>1, <1>2, <1>3, <1>4, <1>5 DEF IInv, BorrowInv, Doing

\* every step keeps it,
LEMMA NextIInv == IInv /\ [Next]_vars => IInv'
<1> SUFFICES ASSUME IInv, [Next]_vars PROVE IInv'
  OBVIOUS
<1>1. CASE Next
  BY <1>1, StackStep, CacheStep, BorrowStep, ResultStep DEF IInv
<1>2. CASE UNCHANGED vars
  <2>1. \A k : HandOn(k)' = HandOn(k)
    BY <1>2 DEF vars, HandOn
  <2>2. StackInv'
    BY <1>2, <2>1 DEF vars, IInv, StackInv, Level
  <2>3. BorrowInv'
    BY <1>2 DEF vars, IInv, BorrowInv, InBadKey, Calls
  <2>4. CacheOK' /\ ResultIsRecord'
    BY <1>2 DEF vars, IInv, CacheOK, CacheInv, ResultIsRecord
  <2> QED BY <1>2, <2>2, <2>3, <2>4 DEF vars, IInv
<1> QED BY <1>1, <1>2

\* and so it always holds.
LEMMA Inductive == Spec => []IInv
BY InitIInv, NextIInv, PTL DEF Spec

\* The cache holds at most 256 keys and none that is not UTF-8, and a visitor only ever
\* does what the code does next.
THEOREM TypeCorrect == Spec => []TypeOK
<1>1. IInv => TypeOK
  <2> SUFFICES ASSUME IInv PROVE TypeOK
    OBVIOUS
  <2>1. \A k \in DOMAIN frames : frames[k].kind \in {"call", "map", "list"}
    BY DEF IInv, StackInv, Level, FrameInv
  <2> QED BY <2>1 DEF IInv, CacheOK, Doing, TypeOK
<1> QED BY <1>1, Inductive, PTL

\* A lookup returns exactly what the record is, or an exception: for every record the crate
\* can follow, however full the cache, and with any number of lookups inside each other.
THEOREM ReturnsTheRecord == Spec => []ResultIsRecord
<1>1. IInv => ResultIsRecord
  BY DEF IInv
<1> QED BY <1>1, Inductive, PTL

\* The RefCell is found borrowed only by a lookup from a finalizer that runs while the
\* UnicodeDecodeError of a key is created.
THEOREM BorrowsOnce == Spec => []NoDoubleBorrow
<1>1. IInv => NoDoubleBorrow
  BY DEF IInv, BorrowInv, NoDoubleBorrow
<1> QED BY <1>1, Inductive, PTL
=============================================================================
