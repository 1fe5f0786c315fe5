--------------------------- MODULE ExampleProofs ---------------------------
(***************************************************************************)
(* The programs of examples/.  What batch_processing.py prints and counts, *)
(* for every list of samples, every count, every chunk size and every      *)
(* database; then which readers each program has open at which statement,  *)
(* whatever is raised and however many networks there are.                 *)
(***************************************************************************)
EXTENDS BatchProcessing, ExamplePrograms, FiniteSetTheorems, SequenceTheorems, TLAPS

-----------------------------------------------------------------------------
(* Arithmetic                                                              *)

\* What is between two multiples of b has the quotient of the first.
LEMMA QuotientIs ==
  ASSUME NEW a \in Nat, NEW b \in Nat \ {0}, NEW q \in Nat, q * b <= a, a < q * b + b
  PROVE  a \div b = q
OBVIOUS

\* The remainder is less than the divisor,
LEMMA RemainderBounds ==
  ASSUME NEW a \in Nat, NEW b \in Nat \ {0}
  PROVE  a % b \in 0..(b - 1)
OBVIOUS

\* and what is added to a multiple of it, if it is less.
LEMMA RemainderIs ==
  ASSUME NEW q \in Nat, NEW b \in Nat \ {0}, NEW r \in Nat, r < b
  PROVE  (q * b + r) % b = r
OBVIOUS

\* The multiple of b that a number reaches.
LEMMA MultipleBelow ==
  ASSUME NEW a \in Nat, NEW b \in Nat \ {0}
  PROVE  /\ a \div b \in Nat
         /\ (a \div b) * b <= a /\ a < (a \div b) * b + b
OBVIOUS

\* Rounding up counts the chunks that begin before the end.
LEMMA RoundedUp ==
  ASSUME NEW n \in Nat, NEW c \in Nat \ {0}, NEW m \in Nat \ {0}, (m - 1) * c < n
  PROVE  /\ m <= (n + c - 1) \div c
         /\ m * c >= n => m = (n + c - 1) \div c
<1>1. PICK a \in Nat : a = n + c - 1
  OBVIOUS
<1>2. PICK q \in Nat : q = a \div c /\ q * c <= a /\ a < q * c + c
  BY MultipleBelow
<1>3. n <= q * c /\ (m - 1) * c = m * c - c /\ (q + 1) * c = q * c + c
  BY <1>1, <1>2
<1>4. m * c < q * c + c
  BY <1>3
<1>5. m <= q
  <2> SUFFICES ASSUME m >= q + 1 PROVE FALSE
    OBVIOUS
  <2>1. m * c >= (q + 1) * c
    OBVIOUS
  <2> QED BY <1>3, <1>4, <2>1
<1>6. ASSUME m * c >= n PROVE m >= q
  <2> SUFFICES ASSUME q >= m + 1 PROVE FALSE
    OBVIOUS
  <2>1. q * c >= (m + 1) * c /\ (m + 1) * c = m * c + c
    OBVIOUS
  <2> QED BY <1>1, <1>2, <1>6, <2>1
<1> QED BY <1>1, <1>2, <1>5, <1>6

\* The smaller of two numbers.
LEMMA MinOfTwo ==
  ASSUME NEW a \in Int, NEW b \in Int
  PROVE  Min({a, b}) = IF a <= b THEN a ELSE b
<1>1. \E x \in {a, b} : \A y \in {a, b} : x <= y
  OBVIOUS
<1>2. Min({a, b}) \in {a, b} /\ \A y \in {a, b} : Min({a, b}) <= y
  BY <1>1 DEF Min
<1> QED BY <1>2

-----------------------------------------------------------------------------
(* The inductive invariant                                                 *)

\* The k-th address that is generated.
Sample(k) == Address[((k - 1) % Len(Address)) + 1]

DataInv == /\ fn \in Zips \cup Generates
           /\ geo \in [Range(Address) -> Results \cup {Corrupt}]
           /\ count \in Nat /\ chunk_size \in Nat \ {0}

\* The samples over and over, cut off at the count in the end.
SampleInv == /\ ips \in Seq(Range(Address))
             /\ \A k \in 1..Len(ips) : ips[k] = Sample(k)
             /\ phase = "generate" => \E m \in Nat : Len(ips) = m * Len(Address)
             /\ phase # "generate" => Len(ips) = count

\* What was asked for is the beginning of the list, all of it at the end.
AskedInv == /\ Len(asked) \in 0..Len(ips)
            /\ asked = SubSeq(ips, 1, Len(asked))
            /\ phase = "generate" => asked = <<>>
            /\ phase \in {"read", "over"} => asked = ips

\* The chunks so far end where the next one starts, or at the end of the list.
ChunkInv ==
  fn = "chunked_batch_processing" =>
    /\ phase \in {"generate", "look up", "over", "raised"}
    /\ lines \in Seq(Nat \X Int)
    /\ phase = "generate" => lines = <<>> /\ total = 0
    /\ \A k \in 1..Len(lines) : lines[k] = <<k, TotalChunks>>
    /\ lines # <<>> => (Len(lines) - 1) * chunk_size < Len(ips)
    /\ phase # "raised" => /\ total = Len(asked)
                           /\ Len(asked) = IF Start <= Len(ips) THEN Start ELSE Len(ips)
    /\ phase = "over" => Start >= Len(ips)

\* The line of the k-th address.
Line(k) == <<ips[k], IF k \in Found(count) THEN geo[ips[k]].country ELSE "??">>

ZipInv ==
  fn \in Zips => /\ phase = "read" => results = Answer(ips)
                 /\ phase = "over" => lines = [k \in 1..count |-> Line(k)]

\* The countries and cities of the first n addresses.
Countries(n) == [k \in Found(n) |-> geo[ips[k]].country]
Cities(n) == [k \in Found(n) |-> geo[ips[k]].city]

\* The results that are left, and the tallies of those that were read.
TallyInv ==
  fn = "aggregate_statistics" =>
    /\ phase \in {"generate", "look up"} => countries = EmptyBag /\ cities = EmptyBag
    /\ phase \in {"read", "over"} =>
         \E n \in 0..count :
           /\ results = [k \in 1..(count - n) |-> geo[ips[n + k]]]
           /\ countries = Tally(Countries(n)) /\ cities = Tally(Cities(n))
           /\ phase = "over" => n = count

BatchInv == DataInv /\ SampleInv /\ AskedInv /\ ChunkInv /\ ZipInv /\ TallyInv

\* There is at least one sample, and Sample gives one.
LEMMA Samples ==
  /\ Address \in Seq(Range(Address)) /\ Len(Address) \in Nat \ {0}
  /\ \A k \in Nat \ {0} : Sample(k) \in Range(Address)
<1>1. Address \in Seq(Range(Address)) /\ Len(Address) \in Nat \ {0}
  <2>1. Address \in Seq(Range(Address)) /\ Address # <<>>
    BY BatchAssumption
  <2> QED BY <2>1, EmptySeq, LenProperties
<1>2. ASSUME NEW k \in Nat \ {0} PROVE Sample(k) \in Range(Address)
  <2>1. k - 1 \in Nat
    OBVIOUS
  <2>2. (k - 1) % Len(Address) \in 0..(Len(Address) - 1)
    BY <1>1, <2>1, RemainderBounds
  <2>3. ((k - 1) % Len(Address)) + 1 \in 1..Len(Address)
    BY <1>1, <2>2
  <2> QED BY <1>1, <2>3, ElementOfSeq DEF Sample
<1> QED BY <1>1, <1>2

\* The sample that follows some rounds of them.
LEMMA SampleOfRound ==
  ASSUME NEW m \in Nat, NEW k \in 1..Len(Address)
  PROVE  Sample(m * Len(Address) + k) = Address[k]
<1>1. PICK l \in Nat \ {0} : l = Len(Address)
  BY Samples
<1>2. PICK p \in Nat : p = m * l
  BY <1>1
<1>3. k - 1 \in Nat /\ k - 1 < l /\ k \in Nat
  BY <1>1
<1>4. (m * l + (k - 1)) % l = k - 1
  BY <1>1, <1>3, RemainderIs
<1>5. (p + k) - 1 = p + (k - 1) /\ (k - 1) + 1 = k
  BY <1>2, <1>3
<1>6. (((p + k) - 1) % l) + 1 = k
  BY <1>2, <1>4, <1>5
<1> QED BY <1>1, <1>2, <1>6 DEF Sample

\* Before the list is generated,
LEMMA BatchStarts == BatchInit => BatchInv
<1> SUFFICES ASSUME BatchInit PROVE BatchInv
  OBVIOUS
<1>1. DataInv
  <2>1. Len(Address) \in Nat /\ MaxCount \in Nat /\ MaxChunk \in Nat \ {0}
    BY BatchAssumption, Samples
  <2> QED BY <2>1 DEF BatchInit, DataInv, Generates
<1>2. phase = "generate" /\ ips = <<>> /\ asked = <<>> /\ total = 0 /\ lines = <<>>
  BY DEF BatchInit
<1>3. SampleInv
  <2>1. ips \in Seq(Range(Address)) /\ Len(ips) = 0
    BY <1>2, EmptySeq
  <2>2. 0 * Len(Address) = 0
    BY Samples
  <2> QED BY <1>2, <2>1, <2>2 DEF SampleInv
<1>4. AskedInv
  <2>1. SubSeq(ips, 1, 0) = <<>>
    BY SubSeqEmpty
  <2> QED BY <1>2, <2>1 DEF AskedInv
<1>5. ChunkInv
  <2>1. lines \in Seq(Nat \X Int) /\ Len(lines) = 0 /\ Len(ips) = 0 /\ Len(asked) = 0
    BY <1>2, EmptySeq
  <2>2. 0 * chunk_size = 0
    BY <1>1 DEF DataInv
  <2> QED BY <1>2, <2>1, <2>2 DEF ChunkInv, Start
<1>6. ZipInv
  BY <1>2 DEF ZipInv
<1>7. TallyInv
  BY <1>2 DEF TallyInv, BatchInit
<1> QED BY <1>1, <1>3, <1>4, <1>5, <1>6, <1>7 DEF BatchInv

\* with every round of samples, and when it is cut off,
LEMMA GenerateStep == BatchInv /\ Generate => BatchInv'
<1> SUFFICES ASSUME BatchInv, Generate PROVE BatchInv'
  OBVIOUS
<1>1. /\ phase = "generate" /\ UNCHANGED <<fn, geo, count, chunk_size>>
      /\ UNCHANGED <<asked, results, total, lines, countries, cities>>
  BY DEF Generate, db
<1>2. /\ ips \in Seq(Range(Address)) /\ Len(ips) \in Nat
      /\ \A k \in 1..Len(ips) : ips[k] = Sample(k)
  BY <1>1, LenProperties DEF BatchInv, SampleInv
<1>3. asked = <<>> /\ DataInv'
  BY <1>1 DEF BatchInv, AskedInv, DataInv
<1>4. phase' \in {"generate", "look up"}
  BY <1>1 DEF Generate
<1>5. SampleInv'
  <2>1. CASE Len(ips) < count /\ ips' = ips \o Address /\ UNCHANGED phase
    <3>1. PICK m \in Nat : Len(ips) = m * Len(Address)
      BY <1>1 DEF BatchInv, SampleInv
    <3>2. PICK l \in Nat : l = Len(Address)
      BY Samples
    <3>3. /\ ips' \in Seq(Range(Address)) /\ Len(ips') = Len(ips) + l
          /\ \A k \in 1..(Len(ips) + l) :
               ips'[k] = IF k <= Len(ips) THEN ips[k] ELSE Address[k - Len(ips)]
      BY <1>2, <2>1, <3>2, Samples, ConcatProperties
    <3>4. ASSUME NEW k \in 1..Len(ips') PROVE ips'[k] = Sample(k)
      <4>1. CASE k <= Len(ips)
        BY <1>2, <3>3, <4>1
      <4>2. CASE k > Len(ips)
        <5>1. k - Len(ips) \in 1..l /\ Len(ips) + (k - Len(ips)) = k
          BY <1>2, <3>2, <3>3, <4>2
        <5>2. Sample(k) = Address[k - Len(ips)]
          BY <3>1, <3>2, <5>1, SampleOfRound
        <5> QED BY <1>2, <3>2, <3>3, <4>2, <5>2
      <4> QED BY <1>2, <4>1, <4>2
    <3>5. Len(ips') = (m + 1) * Len(Address)
      BY <3>1, <3>2, <3>3
    <3>6. m + 1 \in Nat /\ phase' = "generate"
      BY <1>1, <2>1
    <3> HIDE DEF Sample
    <3> QED BY <3>3, <3>4, <3>5, <3>6 DEF SampleInv
  <2>2. CASE ~(Len(ips) < count) /\ ips' = SubSeq(ips, 1, count) /\ phase' = "look up"
    <3> DEFINE first == SubSeq(ips, 1, count)
    <3>0. count \in Nat
      BY DEF BatchInv, DataInv
    <3>1. count \in Nat /\ count <= Len(ips)
      <4>1. Len(ips) \in Nat /\ ~(Len(ips) < count)
        BY <1>2, <2>2
      <4> QED BY <3>0, <4>1
    <3>2. \A k \in 1..count : ips[k] \in Range(Address) /\ 1 + k - 1 = k
      BY <1>2, <3>1, ElementOfSeq
    <3>3. /\ ips' \in Seq(Range(Address)) /\ Len(ips') = count
          /\ \A k \in 1..count : ips'[k] = ips[k]
      <4>1. \A k \in 1..count : ips[k] \in Range(Address)
        BY <3>2
      <4>2. 1 \in Int /\ count \in Int
        BY <3>0
      <4>3. /\ first \in Seq(Range(Address))
            /\ Len(first) = IF 1 <= count THEN count - 1 + 1 ELSE 0
            /\ \A k \in 1..(count - 1 + 1) : first[k] = ips[1 + k - 1]
        BY <4>1, <4>2, SubSeqProperties
      <4>4. ips' = first
        BY <2>2
      <4> HIDE DEF first
      <4>5. count - 1 + 1 = count /\ (IF 1 <= count THEN count - 1 + 1 ELSE 0) = count
        BY <3>0
      <4>6. \A k \in 1..count : first[k] = ips[k]
        BY <3>2, <4>3, <4>5
      <4> QED BY <4>3, <4>4, <4>5, <4>6
    <3>4. \A k \in 1..count : k \in 1..Len(ips)
      BY <1>2, <3>1
    <3> QED BY <1>1, <1>2, <2>2, <3>3, <3>4 DEF SampleInv
  <2> QED BY <2>1, <2>2 DEF Generate
<1>6. AskedInv'
  <2>1. Len(ips') \in Nat
    BY <1>5, LenProperties DEF SampleInv
  <2>2. asked' = <<>> /\ Len(<<>>) = 0 /\ SubSeq(ips', 1, 0) = <<>>
    BY <1>1, <1>3, EmptySeq, SubSeqEmpty
  <2>3. Len(asked') \in 0..Len(ips') /\ asked' = SubSeq(ips', 1, Len(asked'))
    BY <2>1, <2>2
  <2>4. phase' \notin {"read", "over"}
    BY <1>4
  <2> QED BY <2>2, <2>3, <2>4 DEF AskedInv
<1>7. ChunkInv'
  <2> SUFFICES ASSUME fn = "chunked_batch_processing" PROVE ChunkInv'
    BY <1>1 DEF ChunkInv
  <2>1. lines = <<>> /\ total = 0 /\ Len(lines) = 0 /\ Len(asked) = 0 /\ lines' \in Seq(Nat \X Int)
    BY <1>1, <1>3, EmptySeq DEF BatchInv, ChunkInv
  <2>2. Len(ips') \in Nat
    BY <1>5, LenProperties DEF SampleInv
  <2>3. Start' = 0 * chunk_size /\ 0 * chunk_size = 0
    BY <1>1, <2>1 DEF Start, BatchInv, DataInv
  <2>4. Len(asked') = 0 /\ Len(lines') = 0 /\ lines' = <<>> /\ total' = 0
    BY <1>1, <2>1
  <2>5. Start' = 0 /\ Start' <= Len(ips') /\ \A k \in 1..Len(lines') : FALSE
    BY <2>2, <2>3, <2>4
  <2>6. phase' \in {"generate", "look up", "over", "raised"} /\ phase' # "over"
    BY <1>4
  <2> QED BY <2>1, <2>4, <2>5, <2>6 DEF ChunkInv
<1>8. ZipInv'
  BY <1>4 DEF ZipInv
<1>9. TallyInv'
  BY <1>1, <1>4 DEF TallyInv, BatchInv
<1> QED BY <1>3, <1>5, <1>6, <1>7, <1>8, <1>9 DEF BatchInv

-----------------------------------------------------------------------------
(* Tallies                                                                 *)

\* Nothing is counted at first.
LEMMA TallyOfNone ==
  ASSUME NEW f, DOMAIN f = {}
  PROVE  Tally(f) = EmptyBag
<1>1. Range(f) = {}
  BY DEF Range
<1>2. Tally(f) = [v \in {} |-> Cardinality({k \in DOMAIN f : f[k] = v})]
  BY <1>1 DEF Tally
<1>3. EmptyBag = [e \in {} |-> 1]
  BY DEF EmptyBag, SetToBag
<1> QED BY <1>2, <1>3

\* One more value is counted once more.
LEMMA TallyGrows ==
  ASSUME NEW f, IsFiniteSet(DOMAIN f), NEW g, NEW j, j \notin DOMAIN f,
         DOMAIN g = DOMAIN f \cup {j}, \A k \in DOMAIN f : g[k] = f[k]
  PROVE  Tally(g) = Tally(f) (+) SetToBag({g[j]})
<1> DEFINE S == DOMAIN f
           v == g[j]
           F(w) == {k \in S : f[k] = w}
           G(w) == {k \in S \cup {j} : g[k] = w}
           sum == Tally(f) (+) SetToBag({v})
<1>1. Range(g) = Range(f) \cup {v}
  <2>1. Range(f) = {f[k] : k \in S} /\ Range(g) = {g[k] : k \in S \cup {j}}
    BY DEF Range
  <2> QED BY <2>1
<1>2. \A w : IsFiniteSet(F(w)) /\ j \notin F(w) /\ Cardinality(F(w)) \in Nat
  <2>1. \A w : F(w) \in SUBSET S
    OBVIOUS
  <2> HIDE DEF F
  <2>2. \A w : IsFiniteSet(F(w)) /\ Cardinality(F(w)) \in Nat
    BY <2>1, FS_Subset, FS_CardinalityType
  <2> QED BY <2>1, <2>2
<1>3. G(v) = F(v) \cup {j} /\ \A w : w # v => G(w) = F(w)
  OBVIOUS
<1>4. \A w : w \notin Range(f) => F(w) = {}
  BY DEF Range
<1>5. /\ Tally(f) = [w \in Range(f) |-> Cardinality(F(w))]
      /\ Tally(g) = [w \in Range(g) |-> Cardinality(G(w))]
  BY DEF Tally
<1> HIDE DEF F, G, v
<1>6. /\ Cardinality(G(v)) = Cardinality(F(v)) + 1
      /\ \A w : w # v => Cardinality(G(w)) = Cardinality(F(w))
  <2>1. Cardinality(F(v) \cup {j}) = Cardinality(F(v)) + 1
    BY <1>2, FS_AddElement
  <2> QED BY <1>3, <2>1
<1>7. \A w : w \notin Range(f) => Cardinality(F(w)) = 0
  BY <1>4, FS_EmptySet
<1>8. SetToBag({v}) = [e \in {v} |-> 1]
  BY DEF SetToBag
<1>9. sum = [e \in Range(f) \cup {v} |->
               (IF e \in Range(f) THEN Cardinality(F(e)) ELSE 0) + (IF e \in {v} THEN 1 ELSE 0)]
  BY <1>5, <1>8 DEF (+)
<1>10. ASSUME NEW w \in Range(f) \cup {v}
       PROVE  Cardinality(G(w)) =
                (IF w \in Range(f) THEN Cardinality(F(w)) ELSE 0) + (IF w \in {v} THEN 1 ELSE 0)
  <2>1. CASE w = v
    BY <1>2, <1>6, <1>7, <2>1
  <2>2. CASE w # v
    BY <1>2, <1>6, <1>10, <2>2
  <2> QED BY <2>1, <2>2
<1>11. Tally(g) = sum
  BY <1>1, <1>5, <1>9, <1>10
<1> QED BY <1>11 DEF v

\* The addresses with data, one address further.
LEMMA FoundGrows ==
  ASSUME NEW n \in Nat
  PROVE  /\ IsFiniteSet(Found(n)) /\ n + 1 \notin Found(n)
         /\ Truthy(geo[ips[n + 1]]) => Found(n + 1) = Found(n) \cup {n + 1}
         /\ ~Truthy(geo[ips[n + 1]]) => Found(n + 1) = Found(n)
<1>1. Found(n) \in SUBSET (1..n) /\ n + 1 \notin 1..n /\ 1..(n + 1) = (1..n) \cup {n + 1}
  BY DEF Found
<1>2. IsFiniteSet(1..n)
  BY FS_Interval
<1>3. IsFiniteSet(Found(n)) /\ n + 1 \notin Found(n)
  BY <1>1, <1>2, FS_Subset
<1> HIDE DEF Truthy
<1>4. Found(n + 1) = {k \in (1..n) \cup {n + 1} : Truthy(geo[ips[k]])}
  BY <1>1 DEF Found
<1>5. {k \in (1..n) \cup {n + 1} : Truthy(geo[ips[k]])} =
        Found(n) \cup {k \in {n + 1} : Truthy(geo[ips[k]])}
  BY DEF Found
<1> QED BY <1>3, <1>4, <1>5

\* What reading a result adds to the tallies.
LEMMA ResultCounted ==
  ASSUME NEW n \in Nat, NEW r, r = geo[ips[n + 1]]
  PROVE  /\ Truthy(r) => /\ Tally(Countries(n + 1)) = Tally(Countries(n)) (+) SetToBag({r.country})
                         /\ Tally(Cities(n + 1)) = Tally(Cities(n)) (+) SetToBag({r.city})
         /\ ~Truthy(r) => Countries(n + 1) = Countries(n) /\ Cities(n + 1) = Cities(n)
<1> HIDE DEF Truthy
<1>1. CASE Truthy(r)
  <2>1. /\ IsFiniteSet(Found(n)) /\ n + 1 \notin Found(n)
        /\ Found(n + 1) = Found(n) \cup {n + 1}
    BY <1>1, FoundGrows
  <2> HIDE DEF Found
  <2>2. /\ DOMAIN Countries(n) = Found(n) /\ DOMAIN Countries(n + 1) = Found(n) \cup {n + 1}
        /\ Countries(n + 1)[n + 1] = r.country
        /\ \A k \in Found(n) : Countries(n + 1)[k] = Countries(n)[k]
    BY <2>1 DEF Countries
  <2>3. /\ DOMAIN Cities(n) = Found(n) /\ DOMAIN Cities(n + 1) = Found(n) \cup {n + 1}
        /\ Cities(n + 1)[n + 1] = r.city
        /\ \A k \in Found(n) : Cities(n + 1)[k] = Cities(n)[k]
    BY <2>1 DEF Cities
  <2> HIDE DEF Countries, Cities
  <2>4. Tally(Countries(n + 1)) = Tally(Countries(n)) (+) SetToBag({r.country})
    <3> DEFINE v == r.country
               f == Countries(n)
               g == Countries(n + 1)
    <3>1. /\ IsFiniteSet(DOMAIN f) /\ n + 1 \notin DOMAIN f
          /\ DOMAIN g = DOMAIN f \cup {n + 1} /\ \A k \in DOMAIN f : g[k] = f[k]
          /\ g[n + 1] = v
      BY <2>1, <2>2
    <3> HIDE DEF v, f, g
    <3>2. Tally(g) = Tally(f) (+) SetToBag({g[n + 1]})
      BY <3>1, TallyGrows, Zenon
    <3>3. Tally(g) = Tally(f) (+) SetToBag({v})
      BY <3>1, <3>2
    <3> QED BY <3>3 DEF f, g, v
  <2>5. Tally(Cities(n + 1)) = Tally(Cities(n)) (+) SetToBag({r.city})
    <3> DEFINE v == r.city
               f == Cities(n)
               g == Cities(n + 1)
    <3>1. /\ IsFiniteSet(DOMAIN f) /\ n + 1 \notin DOMAIN f
          /\ DOMAIN g = DOMAIN f \cup {n + 1} /\ \A k \in DOMAIN f : g[k] = f[k]
          /\ g[n + 1] = v
      BY <2>1, <2>3
    <3> HIDE DEF v, f, g
    <3>2. Tally(g) = Tally(f) (+) SetToBag({g[n + 1]})
      BY <3>1, TallyGrows, Zenon
    <3>3. Tally(g) = Tally(f) (+) SetToBag({v})
      BY <3>1, <3>2
    <3> QED BY <3>3 DEF f, g, v
  <2> QED BY <1>1, <2>4, <2>5
<1>2. CASE ~Truthy(r)
  <2>1. Found(n + 1) = Found(n)
    BY <1>2, FoundGrows
  <2> QED BY <1>2, <2>1 DEF Countries, Cities
<1> QED BY <1>1, <1>2

-----------------------------------------------------------------------------
(* The steps after the list is generated                                   *)

\* The list is complete, and no step changes it.
LEMMA ListStays ==
  ASSUME BatchInv, phase # "generate", phase' # "generate",
         UNCHANGED <<fn, geo, count, chunk_size, ips>>
  PROVE  /\ DataInv' /\ SampleInv' /\ count \in Nat /\ chunk_size \in Nat \ {0}
         /\ ips \in Seq(Range(Address)) /\ Len(ips) = count /\ DOMAIN ips = 1..count
<1>1. UNCHANGED <<fn, geo, count, chunk_size, ips>>
  OBVIOUS
<1>2. DataInv' /\ count \in Nat /\ chunk_size \in Nat \ {0}
  BY <1>1 DEF BatchInv, DataInv
<1>3. /\ ips \in Seq(Range(Address)) /\ Len(ips) = count
      /\ \A k \in 1..Len(ips) : ips[k] = Sample(k)
  BY DEF BatchInv, SampleInv
<1>4. SampleInv'
  BY <1>1, <1>3 DEF SampleInv
<1>5. DOMAIN ips = 1..count
  BY <1>3, LenProperties
<1> QED BY <1>2, <1>3, <1>4, <1>5

\* With the results of all addresses, nothing of them has been read,
LEMMA LookUpAllStep == BatchInv /\ LookUpAll => BatchInv'
<1> SUFFICES ASSUME BatchInv, LookUpAll PROVE BatchInv'
  OBVIOUS
<1>1. /\ phase = "look up" /\ fn # "chunked_batch_processing" /\ asked' = ips
      /\ UNCHANGED <<fn, geo, count, chunk_size, ips>>
      /\ UNCHANGED <<total, lines, countries, cities>>
  BY DEF LookUpAll, db
<1>2. phase' = "raised" \/ (phase' = "read" /\ results' = Answer(ips))
  BY DEF LookUpAll, Fails
<1>3. /\ DataInv' /\ SampleInv' /\ count \in Nat
      /\ ips \in Seq(Range(Address)) /\ Len(ips) = count /\ DOMAIN ips = 1..count
  BY <1>1, <1>2, ListStays
<1>4. AskedInv'
  <2>1. ips = SubSeq(ips, 1, Len(ips))
    BY <1>3, SubSeqFull
  <2>2. asked' = ips /\ ips' = ips
    BY <1>1
  <2>3. Len(ips) \in 0..Len(ips)
    BY <1>3
  <2>4. phase' # "generate"
    BY <1>2
  <2> QED BY <2>1, <2>2, <2>3, <2>4 DEF AskedInv
<1>5. ChunkInv'
  BY <1>1 DEF ChunkInv
<1>6. ZipInv'
  <2>1. Answer(ips)' = Answer(ips)
    BY <1>1 DEF Answer
  <2> QED BY <1>2, <2>1 DEF ZipInv
<1>7. TallyInv'
  <2> SUFFICES ASSUME fn = "aggregate_statistics" PROVE TallyInv'
    BY <1>1 DEF TallyInv
  <2>1. countries' = EmptyBag /\ cities' = EmptyBag
    BY <1>1 DEF BatchInv, TallyInv
  <2>2. DOMAIN Countries(0)' = {} /\ DOMAIN Cities(0)' = {}
    BY DEF Countries, Cities, Found
  <2>3. Tally(Countries(0)') = EmptyBag /\ Tally(Cities(0)') = EmptyBag
    BY <2>2, TallyOfNone
  <2>4. CASE phase' = "raised"
    BY <2>4 DEF TallyInv
  <2>5. CASE phase' = "read" /\ results' = Answer(ips)
    <3>1. results' = [k \in 1..(count - 0) |-> geo[ips[0 + k]]]
      <4>1. count - 0 = count /\ \A k \in 1..count : 0 + k = k
        BY <1>3
      <4> QED BY <1>3, <2>5, <4>1 DEF Answer
    <3>2. 0 \in 0..count /\ count' = count /\ ips' = ips /\ geo' = geo
      <4>1. count' = count /\ ips' = ips /\ geo' = geo
        BY <1>1
      <4>2. 0 \in 0..count
        BY <1>3
      <4> QED BY <4>1, <4>2
    <3>3. phase' # "over"
      BY <2>5
    <3> QED BY <2>1, <2>3, <2>5, <3>1, <3>2, <3>3 DEF TallyInv
  <2> QED BY <1>2, <2>4, <2>5
<1> QED BY <1>3, <1>4, <1>5, <1>6, <1>7 DEF BatchInv

\* every address is printed with its own result,
LEMMA ZippedStep == BatchInv /\ Zipped => BatchInv'
<1> SUFFICES ASSUME BatchInv, Zipped PROVE BatchInv'
  OBVIOUS
<1>1. /\ phase = "read" /\ fn \in Zips /\ phase' = "over" /\ asked' = asked
      /\ UNCHANGED <<fn, geo, count, chunk_size, ips>>
  BY DEF Zipped, db
<1>2. lines' = [k \in DOMAIN results |->
                  <<ips[k], IF Truthy(results[k]) THEN results[k].country ELSE "??">>]
  BY DEF Zipped
<1>3. /\ DataInv' /\ SampleInv' /\ count \in Nat
      /\ ips \in Seq(Range(Address)) /\ Len(ips) = count /\ DOMAIN ips = 1..count
  BY <1>1, ListStays
<1>4. AskedInv'
  BY <1>1 DEF BatchInv, AskedInv
<1>5. ChunkInv' /\ TallyInv'
  BY <1>1 DEF ChunkInv, TallyInv, Zips
<1>6. ZipInv'
  <2>1. results = [k \in 1..count |-> geo[ips[k]]]
    BY <1>1, <1>3 DEF BatchInv, ZipInv, Answer
  <2>2. \A k \in 1..count : k \in Found(count) <=> Truthy(geo[ips[k]])
    BY DEF Found
  <2>3. ASSUME NEW k \in 1..count
        PROVE  Line(k) = <<ips[k], IF Truthy(results[k]) THEN results[k].country ELSE "??">>
    BY <2>1, <2>2 DEF Line
  <2>4. DOMAIN results = 1..count
    BY <2>1
  <2>5. lines' = [k \in 1..count |-> Line(k)]
    BY <1>2, <2>3, <2>4
  <2>6. \A k : Line(k)' = Line(k)
    BY <1>1 DEF Line, Found
  <2> QED BY <1>1, <2>5, <2>6 DEF ZipInv
<1> QED BY <1>3, <1>4, <1>5, <1>6 DEF BatchInv

\* and every result is counted, or is no data,
LEMMA CountStep == BatchInv /\ Count => BatchInv'
<1> SUFFICES ASSUME BatchInv, Count PROVE BatchInv'
  OBVIOUS
<1>1. /\ phase = "read" /\ fn = "aggregate_statistics" /\ asked' = asked
      /\ UNCHANGED <<fn, geo, count, chunk_size, ips>>
  BY DEF Count, db
<1>2. phase' \in {"read", "over"}
  BY <1>1 DEF Count
<1>3. /\ DataInv' /\ SampleInv' /\ count \in Nat
  BY <1>1, <1>2, ListStays
<1>4. AskedInv'
  BY <1>1, <1>2 DEF BatchInv, AskedInv
<1>5. ChunkInv' /\ ZipInv'
  BY <1>1 DEF ChunkInv, ZipInv, Zips
<1>6. PICK n \in 0..count :
        /\ results = [k \in 1..(count - n) |-> geo[ips[n + k]]]
        /\ countries = Tally(Countries(n)) /\ cities = Tally(Cities(n))
  BY <1>1 DEF BatchInv, TallyInv
<1>7. n \in Nat /\ n <= count /\ count - n \in Nat
  BY <1>3, <1>6
<1> DEFINE S == {geo[ips[n + k]] : k \in 1..(count - n)}
<1>8. results \in Seq(S) /\ Len(results) = count - n
  <2>1. results \in [1..(count - n) -> S]
    BY <1>6
  <2> HIDE DEF S
  <2> QED BY <1>7, <2>1, SeqDef, LenProperties
<1>9. ASSUME NEW m \in 0..count,
             results' = [k \in 1..(count - m) |-> geo[ips[m + k]]],
             countries' = Tally(Countries(m)), cities' = Tally(Cities(m)),
             phase' = "over" => m = count
      PROVE  TallyInv'
  <2>1. Tally(Countries(m))' = Tally(Countries(m)) /\ Tally(Cities(m))' = Tally(Cities(m))
    BY <1>1 DEF Tally, Countries, Cities, Found
  <2>2. (count' = count) /\ [k \in 1..(count - m) |-> geo[ips[m + k]]]' =
                              [k \in 1..(count - m) |-> geo[ips[m + k]]]
    BY <1>1
  <2>3. phase' \notin {"generate", "look up"}
    BY <1>2
  <2>4. m \in 0..count'
    BY <1>9, <2>2
  <2> QED BY <1>9, <2>1, <2>2, <2>3, <2>4 DEF TallyInv
<1>11. ASSUME results = <<>>, phase' = "over", UNCHANGED <<results, countries, cities>>
       PROVE  TallyInv'
  <2>1. count - n = 0
    BY <1>8, <1>11, EmptySeq
  <2>2. n = count
    BY <1>3, <1>7, <2>1
  <2> QED BY <1>6, <1>9, <1>11, <2>2
<1>12. ASSUME results # <<>>, results' = Tail(results), phase' = phase,
              countries' = IF Truthy(Head(results))
                           THEN countries (+) SetToBag({Head(results).country}) ELSE countries,
              cities' = IF Truthy(Head(results))
                        THEN cities (+) SetToBag({Head(results).city}) ELSE cities
       PROVE  TallyInv'
  <2>1. count - n # 0
    BY <1>8, <1>12, EmptySeq
  <2>2. n + 1 \in 0..count /\ count - n >= 1 /\ count - (n + 1) = count - n - 1
    BY <1>3, <1>7, <2>1
  <2>3. Head(results) = results[1] /\ 1 \in 1..(count - n)
    BY <1>8, <1>12, <2>2
  <2>4. Head(results) = geo[ips[n + 1]]
    BY <1>6, <2>3
  <2>5. Tail(results) = [k \in 1..(count - (n + 1)) |-> geo[ips[(n + 1) + k]]]
    <3> DEFINE rest == [k \in 1..(count - (n + 1)) |-> geo[ips[(n + 1) + k]]]
    <3>1. /\ Tail(results) \in Seq(S) /\ Len(Tail(results)) = Len(results) - 1
          /\ \A k \in 1..Len(Tail(results)) : Tail(results)[k] = results[k + 1]
      BY <1>8, <1>12, HeadTailProperties
    <3>2. Len(results) - 1 = count - (n + 1) /\ count - (n + 1) \in Nat
      BY <1>7, <1>8, <2>2
    <3>3. ASSUME NEW k \in 1..(count - (n + 1)) PROVE results[k + 1] = geo[ips[(n + 1) + k]]
      <4>1. k + 1 \in 1..(count - n) /\ n + (k + 1) = (n + 1) + k
        BY <1>3, <1>7, <3>3
      <4> QED BY <1>6, <4>1
    <3>4. \A k \in 1..(count - (n + 1)) : results[k + 1] \in S
      <4>1. \A k \in 1..(count - (n + 1)) : k + 1 \in 1..(count - n)
        BY <1>3, <1>7
      <4> QED BY <1>6, <4>1
    <3>5. rest \in [1..(count - (n + 1)) -> S]
      BY <3>3, <3>4
    <3> HIDE DEF S, rest
    <3>6. rest \in Seq(S) /\ Len(rest) = count - (n + 1)
      BY <3>2, <3>5, SeqDef, LenProperties
    <3>7. \A k \in 1..Len(Tail(results)) : Tail(results)[k] = rest[k]
      BY <3>1, <3>2, <3>3 DEF rest
    <3>8. Tail(results) = rest
      BY <3>1, <3>2, <3>6, <3>7, SeqEqual
    <3> QED BY <3>8 DEF rest
  <2>6. countries' = Tally(Countries(n + 1)) /\ cities' = Tally(Cities(n + 1))
    <3> DEFINE r == Head(results)
    <3>1. r = geo[ips[n + 1]]
      BY <2>4
    <3> HIDE DEF r
    <3>2. /\ Truthy(r) => /\ Tally(Countries(n + 1)) = Tally(Countries(n)) (+) SetToBag({r.country})
                          /\ Tally(Cities(n + 1)) = Tally(Cities(n)) (+) SetToBag({r.city})
          /\ ~Truthy(r) => Countries(n + 1) = Countries(n) /\ Cities(n + 1) = Cities(n)
      BY <1>7, <3>1, ResultCounted
    <3> QED BY <1>6, <1>12, <3>2 DEF r
  <2>7. phase' # "over"
    BY <1>1, <1>12
  <2> QED BY <1>9, <1>12, <2>2, <2>5, <2>6, <2>7
<1>13. TallyInv'
  BY <1>1, <1>11, <1>12 DEF Count
<1> QED BY <1>3, <1>4, <1>5, <1>13 DEF BatchInv

\* There are as many results as addresses.
LEMMA AnswerLength ==
  ASSUME NEW S, NEW s \in Seq(S)
  PROVE  Len(Answer(s)) = Len(s)
<1>1. PICK m \in Nat : m = Len(s) /\ DOMAIN s = 1..m
  BY LenProperties
<1> DEFINE T == {geo[s[k]] : k \in 1..m}
           a == Answer(s)
<1>2. a \in [1..m -> T]
  BY <1>1 DEF Answer
<1> HIDE DEF T, a
<1>3. a \in Seq(T) /\ Len(a) = m
  BY <1>2, SeqDef, LenProperties
<1> QED BY <1>1, <1>3 DEF a

\* The chunk after the addresses that were asked for continues them.
LEMMA NextOfChunks ==
  ASSUME NEW S, NEW s \in Seq(S), NEW m \in Nat, NEW e \in Nat, m <= e, e <= Len(s)
  PROVE  /\ SubSeq(s, 1, m) \o SubSeq(s, m + 1, e) = SubSeq(s, 1, e)
         /\ SubSeq(s, 1, e) \in Seq(S) /\ Len(SubSeq(s, 1, e)) = e
         /\ SubSeq(s, m + 1, e) \in Seq(S) /\ Len(SubSeq(s, m + 1, e)) = e - m
<1>1. PICK n \in Nat : n = Len(s)
  BY LenProperties
<1>2. SubSeq(s, 1, m) \o SubSeq(s, m + 1, e) = SubSeq(s, 1, e)
  <2>1. 1 \in 1..(Len(s) + 1) /\ m \in (1 - 1)..Len(s) /\ e \in m..Len(s)
    BY <1>1
  <2> QED BY <2>1, ConcatAdjacentSubSeq
<1>3. ASSUME NEW a \in {0, m} PROVE SubSeq(s, a + 1, e) \in Seq(S) /\ Len(SubSeq(s, a + 1, e)) = e - a
  <2>1. a \in Nat /\ a <= e
    OBVIOUS
  <2>2. \A i \in (a + 1)..e : s[i] \in S
    BY <1>1, <2>1, ElementOfSeq
  <2>3. /\ SubSeq(s, a + 1, e) \in Seq(S)
        /\ Len(SubSeq(s, a + 1, e)) = IF a + 1 <= e THEN e - (a + 1) + 1 ELSE 0
    BY <2>1, <2>2, SubSeqProperties
  <2>4. (IF a + 1 <= e THEN e - (a + 1) + 1 ELSE 0) = e - a
    BY <2>1
  <2> QED BY <2>3, <2>4
<1>4. SubSeq(s, 0 + 1, e) = SubSeq(s, 1, e) /\ e - 0 = e
  OBVIOUS
<1> QED BY <1>2, <1>3, <1>4

\* and every chunk is a part of the list, the last one what is left of it.
LEMMA NextChunkStep == BatchInv /\ NextChunk => BatchInv'
<1> SUFFICES ASSUME BatchInv, NextChunk PROVE BatchInv'
  OBVIOUS
<1>1. /\ phase = "look up" /\ fn = "chunked_batch_processing"
      /\ UNCHANGED <<fn, geo, count, chunk_size, ips>>
  BY DEF NextChunk, db
<1>2. phase' \in {"look up", "over", "raised"}
  BY <1>1 DEF NextChunk
<1>3. /\ DataInv' /\ SampleInv' /\ count \in Nat /\ chunk_size \in Nat \ {0}
      /\ ips \in Seq(Range(Address)) /\ Len(ips) = count
  BY <1>1, <1>2, ListStays
<1>4. ZipInv' /\ TallyInv'
  BY <1>1 DEF ZipInv, TallyInv, Zips
<1>5. PICK n \in Nat, c \in Nat \ {0} : n = count /\ n = Len(ips) /\ c = chunk_size
  BY <1>3
<1>6. /\ lines \in Seq(Nat \X Int)
      /\ \A k \in 1..Len(lines) : lines[k] = <<k, TotalChunks>>
      /\ lines # <<>> => (Len(lines) - 1) * c < n
      /\ total = Len(asked) /\ Len(asked) = IF Start <= n THEN Start ELSE n
  BY <1>1, <1>5 DEF BatchInv, ChunkInv
<1>7. PICK m \in Nat : m = Len(lines)
  BY <1>6, LenProperties
<1>8. PICK at \in Nat : at = Start /\ at = m * c
  BY <1>5, <1>7 DEF Start
<1>9. asked = SubSeq(ips, 1, Len(asked))
  BY DEF BatchInv, AskedInv
<1>10. PICK chunks \in Nat : chunks = TotalChunks /\ TotalChunks' = TotalChunks
  <2>1. n + c - 1 \in Nat
    OBVIOUS
  <2>2. (n + c - 1) \div c \in Nat
    BY <2>1, MultipleBelow
  <2> QED BY <1>1, <1>5, <2>2 DEF TotalChunks
<1>11. ASSUME at >= n, phase' = "over", UNCHANGED <<asked, total, lines>>
       PROVE  AskedInv' /\ ChunkInv'
  <2>1. Len(asked) = n /\ asked = ips
    <3>1. Len(asked) = n
      BY <1>6, <1>8, <1>11
    <3> QED BY <1>3, <1>5, <1>9, <3>1, SubSeqFull
  <2>2. asked' = ips' /\ Len(ips') = n /\ ips' = SubSeq(ips', 1, n)
    BY <1>1, <1>3, <1>5, <1>11, <2>1, SubSeqFull
  <2>3. AskedInv'
    <3>1. n \in 0..n
      OBVIOUS
    <3> QED BY <1>11, <2>2, <3>1 DEF AskedInv
  <2>4. Start' = at /\ chunk_size' = c /\ lines' = lines
    BY <1>1, <1>5, <1>8, <1>11 DEF Start
  <2>5. /\ lines' \in Seq(Nat \X Int)
        /\ \A k \in 1..Len(lines') : lines'[k] = <<k, TotalChunks'>>
        /\ lines' # <<>> => (Len(lines') - 1) * c < n
    BY <1>6, <1>10, <2>4
  <2>6. total' = n /\ Len(asked') = n
    BY <1>6, <1>11, <2>1
  <2>7. n = IF at <= n THEN at ELSE n
    BY <1>11
  <2>8. ChunkInv'
    BY <1>11, <2>2, <2>4, <2>5, <2>6, <2>7 DEF ChunkInv
  <2> QED BY <2>3, <2>8
<1> DEFINE e == IF at + c <= n THEN at + c ELSE n
<1>12. ASSUME at < n
       PROVE  /\ e \in Nat /\ at <= e /\ e <= n /\ Chunk = SubSeq(ips, at + 1, e)
              /\ asked \o Chunk = SubSeq(ips, 1, e) /\ Len(SubSeq(ips, 1, e)) = e
              /\ Len(Answer(Chunk)) = e - at /\ total = at
  <2>1. e \in Nat /\ at <= e /\ e <= n
    BY <1>12
  <2>2. Min({at + c, n}) = e
    BY MinOfTwo
  <2>3. Chunk = SubSeq(ips, at + 1, e)
    BY <1>5, <1>8, <2>2 DEF Chunk
  <2>4. Len(asked) = at
    BY <1>6, <1>8, <1>12
  <2>5. asked = SubSeq(ips, 1, at)
    BY <1>9, <2>4
  <2> HIDE DEF e
  <2>6. /\ SubSeq(ips, 1, at) \o SubSeq(ips, at + 1, e) = SubSeq(ips, 1, e)
        /\ Len(SubSeq(ips, 1, e)) = e
        /\ SubSeq(ips, at + 1, e) \in Seq(Range(Address)) /\ Len(SubSeq(ips, at + 1, e)) = e - at
    BY <1>3, <1>5, <2>1, NextOfChunks
  <2>7. Len(Answer(Chunk)) = e - at
    BY <2>3, <2>6, AnswerLength
  <2> QED BY <1>6, <2>1, <2>3, <2>4, <2>5, <2>6, <2>7
<1>13. ASSUME at < n, asked' = asked \o Chunk,
              phase' \in {"look up", "raised"}
       PROVE  AskedInv' /\ Len(asked') = e
  <2> HIDE DEF e
  <2>1. asked' = SubSeq(ips, 1, e) /\ Len(asked') = e /\ e \in 0..n
    <3>1. /\ e \in Nat /\ e <= n
          /\ asked \o Chunk = SubSeq(ips, 1, e) /\ Len(SubSeq(ips, 1, e)) = e
      BY <1>12, <1>13
    <3>2. asked' = SubSeq(ips, 1, e) /\ Len(asked') = e
      BY <1>13, <3>1
    <3> QED BY <3>1, <3>2
  <2>2. ips' = ips /\ Len(ips') = n
    BY <1>1, <1>5
  <2>3. phase' \notin {"generate", "read", "over"}
    BY <1>13
  <2> QED BY <2>1, <2>2, <2>3 DEF AskedInv
<1>14. ASSUME at < n, asked' = asked \o Chunk, phase' = "raised", UNCHANGED <<total, lines>>
       PROVE  ChunkInv'
  <2>1. lines' = lines /\ Len(ips') = n /\ chunk_size' = c
    BY <1>1, <1>5, <1>14
  <2> QED BY <1>6, <1>10, <1>14, <2>1 DEF ChunkInv
<1>15. ASSUME at < n, asked' = asked \o Chunk, total' = total + Len(Answer(Chunk)),
              lines' = Append(lines, <<(Start \div chunk_size) + 1, TotalChunks>>), phase' = phase
       PROVE  ChunkInv'
  <2> DEFINE l == <<m + 1, chunks>>
  <2>1. lines' = Append(lines, l)
    <3>1. at \div c = m
      BY <1>8, QuotientIs
    <3> QED BY <1>5, <1>8, <1>10, <1>15, <3>1
  <2>2. l \in Nat \X Int
    OBVIOUS
  <2> HIDE DEF l
  <2>3. /\ lines' \in Seq(Nat \X Int) /\ Len(lines') = m + 1 /\ lines' # <<>>
        /\ \A k \in 1..m : lines'[k] = lines[k]
        /\ lines'[m + 1] = l
    <3>1. /\ Append(lines, l) \in Seq(Nat \X Int) /\ Append(lines, l) # <<>>
          /\ Len(Append(lines, l)) = Len(lines) + 1
          /\ \A k \in 1..Len(lines) : Append(lines, l)[k] = lines[k]
          /\ Append(lines, l)[Len(lines) + 1] = l
      BY <1>6, <2>2, AppendProperties
    <3> QED BY <1>7, <2>1, <3>1
  <2>4. ASSUME NEW k \in 1..Len(lines') PROVE lines'[k] = <<k, TotalChunks'>>
    <3>1. CASE k \in 1..m
      BY <1>6, <1>7, <1>10, <2>3, <3>1
    <3>2. CASE k = m + 1
      BY <1>10, <2>3, <3>2 DEF l
    <3> QED BY <2>3, <3>1, <3>2
  <2>5. Start' = at + c /\ (Len(lines') - 1) * chunk_size' < n
    <3>1. (m + 1) * c = m * c + c /\ (m + 1) - 1 = m
      OBVIOUS
    <3>2. chunk_size' = c
      BY <1>1, <1>5
    <3>3. (m + 1) * c = at + c /\ ((m + 1) - 1) * c = at
      BY <1>8, <3>1
    <3> QED BY <1>15, <2>3, <3>2, <3>3 DEF Start
  <2>6. Len(ips') = n /\ phase' = "look up"
    BY <1>1, <1>5, <1>15
  <2>7. Len(asked') = e /\ total' = e
    <3>1. Len(asked') = e
      BY <1>1, <1>13, <1>15
    <3>2. total' = at + (e - at) /\ e \in Nat
      BY <1>12, <1>15
    <3> HIDE DEF e
    <3> QED BY <3>1, <3>2
  <2> QED BY <2>3, <2>4, <2>5, <2>6, <2>7 DEF ChunkInv
<1> HIDE DEF e
<1>16. AskedInv' /\ ChunkInv'
  <2>1. CASE Start >= Len(ips)
    BY <1>5, <1>8, <1>11, <2>1 DEF NextChunk
  <2>2. CASE ~(Start >= Len(ips))
    <3>1. at < n /\ asked' = asked \o Chunk
      <4>1. asked' = asked \o Chunk
        BY <2>2 DEF NextChunk, Fails
      <4>2. ~(at >= n)
        BY <1>5, <1>8, <2>2
      <4> QED BY <4>1, <4>2
    <3>2. \/ phase' = "raised" /\ UNCHANGED <<total, lines>>
          \/ /\ total' = total + Len(Answer(Chunk)) /\ phase' = phase
             /\ lines' = Append(lines, <<(Start \div chunk_size) + 1, TotalChunks>>)
      BY <2>2 DEF NextChunk, Fails
    <3> QED BY <1>1, <1>13, <1>14, <1>15, <3>1, <3>2
  <2> QED BY <2>1, <2>2
<1> QED BY <1>3, <1>4, <1>16 DEF BatchInv

-----------------------------------------------------------------------------
(* The theorems of BatchProcessing                                         *)

\* No function of batch_processing.py leaves the invariant.
LEMMA BatchInvariance == BatchSpec => []BatchInv
<1>1. ASSUME BatchInv, UNCHANGED batch PROVE BatchInv'
  <2>1. /\ UNCHANGED <<fn, geo, count, chunk_size>>
        /\ UNCHANGED <<phase, ips, asked, results, total, lines, countries, cities>>
    BY <1>1 DEF batch, db
  <2>2. DataInv' /\ SampleInv' /\ AskedInv'
    BY <1>1, <2>1 DEF BatchInv, DataInv, SampleInv, AskedInv
  <2>3. ChunkInv'
    BY <1>1, <2>1 DEF BatchInv, ChunkInv, TotalChunks, Start
  <2>4. ZipInv'
    BY <1>1, <2>1 DEF BatchInv, ZipInv, Answer, Line, Found
  <2>5. TallyInv'
    <3> SUFFICES ASSUME fn = "aggregate_statistics" PROVE TallyInv'
      BY <2>1 DEF TallyInv
    <3>1. CASE phase \in {"read", "over"}
      <4>1. PICK n \in 0..count :
              /\ results = [k \in 1..(count - n) |-> geo[ips[n + k]]]
              /\ countries = Tally(Countries(n)) /\ cities = Tally(Cities(n))
              /\ phase = "over" => n = count
        BY <1>1, <3>1 DEF BatchInv, TallyInv
      <4>2. Tally(Countries(n))' = Tally(Countries(n)) /\ Tally(Cities(n))' = Tally(Cities(n))
        BY <2>1 DEF Tally, Countries, Cities, Found
      <4>3. [k \in 1..(count - n) |-> geo[ips[n + k]]]' = [k \in 1..(count - n) |-> geo[ips[n + k]]]
        BY <2>1
      <4>4. phase' \notin {"generate", "look up"} /\ n \in 0..count'
        BY <2>1, <3>1
      <4>5. /\ results' = [k \in 1..(count - n) |-> geo[ips[n + k]]]'
            /\ countries' = Tally(Countries(n))' /\ cities' = Tally(Cities(n))'
            /\ phase' = "over" => n = count'
        BY <2>1, <4>1, <4>2, <4>3
      <4> QED BY <4>4, <4>5 DEF TallyInv
    <3>2. CASE phase \notin {"read", "over"}
      BY <1>1, <2>1, <3>2 DEF BatchInv, TallyInv
    <3> QED BY <3>1, <3>2
  <2> QED BY <2>2, <2>3, <2>4, <2>5 DEF BatchInv
<1>2. BatchInv /\ [BatchNext]_batch => BatchInv'
  BY <1>1, GenerateStep, LookUpAllStep, ZippedStep, CountStep, NextChunkStep DEF BatchNext
<1> QED BY BatchStarts, <1>2, PTL DEF BatchSpec

\* Every address of the list is asked for once and in order, in chunks of any size, and the
\* chunks are numbered from 1 to their number.
THEOREM AsksForEachOnce == BatchSpec => []EachAskedOnce
<1>1. BatchInv => EachAskedOnce
  <2> SUFFICES ASSUME BatchInv PROVE EachAskedOnce
    OBVIOUS
  <2>1. /\ ips \in Seq(Range(Address)) /\ \A k \in 1..Len(ips) : ips[k] = Sample(k)
        /\ phase # "generate" => Len(ips) = count
    BY DEF BatchInv, SampleInv
  <2>2. PICK n \in Nat : n = Len(ips) /\ DOMAIN ips = 1..n
    BY <2>1, LenProperties
  <2>3. phase # "generate" => ips = [k \in 1..count |-> Address[((k - 1) % Len(Address)) + 1]]
    <3> SUFFICES ASSUME phase # "generate"
                 PROVE  ips = [k \in 1..count |-> Sample(k)]
      BY DEF Sample
    <3>1. count = n /\ ips = [k \in 1..n |-> ips[k]] /\ \A k \in 1..n : ips[k] = Sample(k)
      BY <2>1, <2>2
    <3> QED BY <3>1
  <2>4. Len(asked) \in 0..n /\ asked = SubSeq(ips, 1, Len(asked))
    BY <2>2 DEF BatchInv, AskedInv
  <2>5. IsPrefix(asked, ips)
    <3>1. \A i \in 1..Len(asked) : ips[i] \in Range(Address)
      BY <2>1, <2>2, <2>4, ElementOfSeq
    <3>2. asked \in Seq(Range(Address))
      <4>1. Len(asked) \in Int
        BY <2>4
      <4>2. SubSeq(ips, 1, Len(asked)) \in Seq(Range(Address))
        BY <3>1, <4>1, SubSeqProperties
      <4> QED BY <2>4, <4>2
    <3>3. SubSeq(asked, 1, Len(asked)) = asked
      BY <3>2, SubSeqFull
    <3>4. Len(asked) <= Len(ips)
      BY <2>2, <2>4
    <3> QED BY <2>4, <3>3, <3>4 DEF IsPrefix
  <2>6. phase = "over" => asked = ips
    BY DEF BatchInv, AskedInv
  <2>7. ASSUME fn = "chunked_batch_processing"
        PROVE  /\ phase # "raised" => total = Len(asked)
               /\ \A k \in DOMAIN lines : lines[k][1] = k /\ k <= lines[k][2]
               /\ phase = "over" /\ lines # <<>> => Last(lines)[1] = Last(lines)[2]
    <3>1. /\ lines \in Seq(Nat \X Int)
          /\ phase # "raised" => total = Len(asked)
      BY <2>7 DEF BatchInv, ChunkInv
    <3>2. PICK m \in Nat : m = Len(lines) /\ DOMAIN lines = 1..m
      BY <3>1, LenProperties
    <3>3. PICK c \in Nat \ {0} : c = chunk_size
      BY DEF BatchInv, DataInv
    <3>4. /\ \A k \in 1..m : lines[k] = <<k, TotalChunks>>
          /\ lines # <<>> => (m - 1) * c < n
      BY <2>2, <2>7, <3>2, <3>3 DEF BatchInv, ChunkInv
    <3>5. phase = "over" => m * c >= n
      BY <2>2, <2>7, <3>2, <3>3 DEF BatchInv, ChunkInv, Start
    <3>6. lines # <<>> => m \in Nat \ {0}
      BY <3>1, <3>2, EmptySeq
    <3>7. lines # <<>> => m <= TotalChunks /\ (m * c >= n => m = TotalChunks)
      <4>1. TotalChunks = (n + c - 1) \div c
        BY <2>2, <3>3 DEF TotalChunks
      <4> QED BY <3>4, <3>6, <4>1, RoundedUp
    <3>8. TotalChunks \in Int
      <4>1. n + c - 1 \in Nat
        OBVIOUS
      <4>2. (n + c - 1) \div c \in Nat
        BY <4>1, MultipleBelow
      <4> QED BY <2>2, <3>3, <4>2 DEF TotalChunks
    <3>9. ASSUME NEW k \in DOMAIN lines PROVE lines[k][1] = k /\ k <= lines[k][2]
      <4>1. lines # <<>> /\ k \in 1..m /\ lines[k] = <<k, TotalChunks>>
        BY <3>2, <3>4, EmptySeq
      <4>2. k <= TotalChunks
        BY <3>7, <3>8, <4>1
      <4> QED BY <4>1, <4>2
    <3>10. phase = "over" /\ lines # <<>> => Last(lines)[1] = Last(lines)[2]
      <4> SUFFICES ASSUME phase = "over", lines # <<>> PROVE Last(lines)[1] = Last(lines)[2]
        OBVIOUS
      <4>1. m = TotalChunks /\ m \in 1..m
        BY <3>5, <3>6, <3>7
      <4>2. Last(lines) = <<m, TotalChunks>>
        BY <3>2, <3>4, <4>1 DEF Last
      <4> QED BY <4>1, <4>2
    <3> QED BY <3>1, <3>9, <3>10
  <2> QED BY <2>3, <2>5, <2>6, <2>7 DEF EachAskedOnce
<1> QED BY BatchInvariance, <1>1, PTL

\* What is printed and counted is what the database has for the addresses.
THEOREM PrintsWhatIsFound == BatchSpec => []OutputIsOfTheDatabase
<1>1. BatchInv => OutputIsOfTheDatabase
  <2> SUFFICES ASSUME BatchInv, phase = "over" PROVE OutputIsOfTheDatabase
    BY DEF OutputIsOfTheDatabase
  <2>1. fn \in Zips =>
          lines = [k \in 1..count |->
                     <<ips[k], IF k \in Found(count) THEN geo[ips[k]].country ELSE "??">>]
    BY DEF BatchInv, ZipInv, Line
  <2>2. fn = "aggregate_statistics" =>
          /\ countries = Tally([k \in Found(count) |-> geo[ips[k]].country])
          /\ cities = Tally([k \in Found(count) |-> geo[ips[k]].city])
    BY DEF BatchInv, TallyInv, Countries, Cities
  <2> QED BY <2>1, <2>2 DEF OutputIsOfTheDatabase
<1> QED BY BatchInvariance, <1>1, PTL

-----------------------------------------------------------------------------
(* The four programs *)

\* What the lists hold that the functions go through.
Listed == {"8.8.8.8", "1.1.1.1", "invalid-ip", "208.67.222.222", "first", "second"}

\* The blocks around a statement, as the text of a function has them.
Errors == {"OSError", "InvalidDatabaseError"} \cup ValueErrors
WithBlock(x) == [kind |-> "with", on |-> x, to |-> 0]
TryBlock(es, handler) == [kind |-> "try", on |-> es, to |-> handler]
ForBlock(x) == [kind |-> "for", on |-> x, to |-> 0]
Block == [kind : {"with", "for"}, on : Name, to : Nat]
           \cup [kind : {"try"}, on : SUBSET Errors, to : Nat]

\* What holds when a statement is next: the blocks around it, the readers that are open
\* and those that are closed, and whether the loop over a list has an item in hand.
Note(bs, open, closed, item) ==
  [blocks |-> bs, open |-> open, closed |-> closed, item |-> item]

\* The notes on the functions with one reader and at most a loop in its with block,
WithReader == WithBlock("reader")
ForReader == ForBlock("reader")
Before    == Note(<<>>, {}, {}, FALSE)
InWith    == Note(<<WithReader>>, {"reader"}, {}, FALSE)
InBody    == Note(<<WithReader>>, {"reader"}, {}, TRUE)
Iterating == Note(<<WithReader, ForReader>>, {"reader"}, {}, FALSE)
Closed    == Note(<<>>, {}, {"reader"}, FALSE)

\* on basic_usage,
TryClosed == TryBlock(ValueErrors, 12)
Opened == Note(<<>>, {"reader"}, {}, FALSE)
Tried  == Note(<<TryClosed>>, {}, {"reader"}, FALSE)

\* on the function with exception handling,
TryOpening == TryBlock({"OSError", "InvalidDatabaseError"}, 14)
TryItem == TryBlock(ValueErrors, 9)
InTry       == Note(<<TryOpening>>, {}, {}, FALSE)
InBoth      == Note(<<TryOpening, WithReader>>, {"reader"}, {}, FALSE)
InLoop      == Note(<<TryOpening, WithReader>>, {"reader"}, {}, TRUE)
InInner     == Note(<<TryOpening, WithReader, TryItem>>, {"reader"}, {}, TRUE)
ClosedInTry == Note(<<TryOpening>>, {}, {"reader"}, FALSE)

\* on the one with two databases,
WithCity == WithBlock("city_reader")
WithCountry == WithBlock("country_reader")
InCity     == Note(<<WithCity>>, {"city_reader"}, {}, FALSE)
InCountry  == Note(<<WithCity, WithCountry>>, {"city_reader", "country_reader"}, {}, FALSE)
InCityOnly == Note(<<WithCity>>, {"city_reader"}, {"country_reader"}, FALSE)
BothClosed == Note(<<>>, {}, {"city_reader", "country_reader"}, FALSE)

\* and on the one that expects a bad address in a batch.
TryBatch == TryBlock(ValueErrors, 8)
Expecting == Note(<<WithReader, TryBatch>>, {"reader"}, {}, FALSE)

\* The notes of a function, one for each statement and one for its end.
UsageOutline ==
  <<Before, Opened, Opened, Opened, Opened, Opened, Opened, Closed, Closed, Tried, Tried, Closed>>
ManagerOutline == <<Before, InWith, InWith, InWith, Closed, Closed>>
HandlingOutline ==
  <<Before, InTry, InBoth, InBoth, InBoth, InLoop, InInner, InInner, InLoop, InBoth, InBoth,
    ClosedInTry, Closed, Before>>
MultipleOutline ==
  <<Before, InCity, InCountry, InCountry, InCountry, InCityOnly, BothClosed, BothClosed>>
ModesOutline == <<Before, InWith, InWith, Before, InWith, InWith, Before>>
IterationOutline == <<Before, InWith, Iterating, Iterating, InWith, Before>>
BreakOutline == <<Before, InWith, Iterating, Iterating, Iterating, InWith, Before>>
LookupOutline == <<Before, InWith, InWith, Before>>
ComparisonOutline ==
  <<Before, InWith, InWith, InBody, InBody, InWith, InWith, InWith, Before>>
ErrorOutline ==
  <<Before, InWith, Expecting, Expecting, Expecting, Expecting, Expecting, InWith, Before>>
ChunkedOutline == <<Before, InWith, InWith, InBody, InBody, InWith, InWith, Before>>

Outline ==
  [basic_usage      |-> <<UsageOutline>>,
   context_manager  |-> <<ManagerOutline, HandlingOutline, MultipleOutline, ModesOutline>>,
   iterator_demo    |-> <<IterationOutline, IterationOutline, BreakOutline, IterationOutline,
                          IterationOutline, BreakOutline>>,
   batch_processing |-> <<LookupOutline, ComparisonOutline, LookupOutline, LookupOutline,
                          ErrorOutline, ChunkedOutline>>]

\* One of the blocks from the k-th on is a with block that closes x.
Closes(bs, k, x) == \E j \in k .. Len(bs) : bs[j].kind = "with" /\ bs[j].on = x

\* From what n says to what m says, the blocks change in one of three ways: the ones from
\* the k-th on are left, which closes the readers of with blocks among them,
Leaves(n, m, k) ==
  /\ Len(m.blocks) = k - 1 /\ \A j \in 1 .. k - 1 : m.blocks[j] = n.blocks[j]
  /\ \A x \in Name : /\ x \in m.open <=> x \in n.open /\ ~Closes(n.blocks, k, x)
                     /\ x \in m.closed => x \in n.closed \/ Closes(n.blocks, k, x)
  /\ m.item => n.item

\* one more is entered,
Enters(n, m, b) ==
  /\ Len(m.blocks) = Len(n.blocks) + 1 /\ m.blocks[Len(n.blocks) + 1] = b
  /\ \A j \in 1 .. Len(n.blocks) : m.blocks[j] = n.blocks[j]
  /\ m.item => n.item

\* or they stay;
Remains(n, m) == /\ Len(m.blocks) = Len(n.blocks)
                 /\ \A j \in 1 .. Len(n.blocks) : m.blocks[j] = n.blocks[j]

\* and unless blocks are left, a reader is opened, closed, or neither.
Opens(n, m, x) == \A y \in Name : /\ y \in m.open <=> y \in n.open \/ y = x
                                  /\ y \in m.closed => y \in n.closed /\ y # x
Shuts(n, m, x) == \A y \in Name : /\ y \in m.open <=> y \in n.open /\ y # x
                                  /\ y \in m.closed => y \in n.closed \/ y = x
Neither(n, m) == \A y \in Name : /\ y \in m.open <=> y \in n.open
                                 /\ y \in m.closed => y \in n.closed
Stays(n, m) == Remains(n, m) /\ Neither(n, m) /\ (m.item => n.item)

\* No list of addresses that the function goes through has a bad one.
Harmless(body) ==
  \A p \in 1 .. Len(body) :
    body[p].do = "foreach" => \A i \in 1 .. Len(body[p].arg) : body[p].arg[i] # "invalid-ip"

Catches(n) == \E k \in 1 .. Len(n.blocks) :
                n.blocks[k].kind = "try" /\ "ValueError" \in n.blocks[k].on

\* A lookup has its reader, and its address is good or the exception is expected.
Expected(body, s, n) ==
  /\ s.on \in n.open \cup n.closed
  /\ s.arg = "item" => n.item
  /\ \/ Catches(n)
     \/ s.on \in n.open /\ s.arg # "invalid-ip" /\ (s.arg = "item" => Harmless(body))

\* The statement at p leads from what the outline says of p to what it says of the
\* statements that may be next.
Follows(body, o, p) ==
  LET s == body[p]
      n == o[p]
      m == o[p + 1]
      top == Len(n.blocks)
  IN
  \/ /\ s.do = "open" /\ s.on \in Name
     /\ Remains(n, m) /\ Opens(n, m, s.on) /\ (m.item => n.item)
  \/ /\ s.do = "with" /\ s.on \in Name
     /\ Enters(n, m, WithBlock(s.on)) /\ Opens(n, m, s.on)
  \/ /\ s.do = "try" /\ s.on \subseteq Errors /\ s.arg \in Nat
     /\ Enters(n, m, TryBlock(s.on, s.arg)) /\ Neither(n, m)
  \/ s.do = "end" /\ top > 0 /\ Leaves(n, m, top)
  \/ s.do = "get" /\ Expected(body, s, n) /\ Stays(n, m)
  \/ s.do = "metadata" /\ Stays(n, m)
  \/ /\ s.do = "close" /\ s.on \in Name
     /\ Remains(n, m) /\ Shuts(n, m, s.on) /\ (m.item => n.item)
  \/ /\ s.do = "says" /\ s.on \subseteq Name /\ Stays(n, m)
     /\ s.on \subseteq IF s.arg THEN n.closed ELSE n.open
  \/ s.do = "goto" /\ s.arg \in DOMAIN o /\ Stays(n, o[s.arg])
  \/ s.do = "foreach" /\ s.arg \in Seq(Listed) /\ Stays(n, m) /\ ~m.item
  \/ /\ s.do = "next" /\ s.arg \in DOMAIN o /\ Stays(n, o[s.arg])
     /\ Remains(n, m) /\ Neither(n, m)
  \/ s.do = "report" /\ n.item /\ ~m.item /\ Stays(n, m)
  \/ /\ s.do = "iterate" /\ s.on \in n.open /\ s.on \in Name
     /\ Enters(n, m, ForBlock(s.on)) /\ Neither(n, m)
  \/ /\ s.do = "advance" /\ s.arg \in DOMAIN o
     /\ top > 0 /\ n.blocks[top].kind = "for" /\ Stays(n, m) /\ Leaves(n, o[s.arg], top)
  \/ /\ s.do = "break" /\ s.arg \in DOMAIN o
     /\ top > 0 /\ Stays(n, m) /\ Leaves(n, o[s.arg], top)

\* A handler is where the outline says that its try block is left.
Handled(n, o) ==
  \A k \in 1 .. Len(n.blocks) :
    n.blocks[k].kind = "try" =>
      n.blocks[k].to \in DOMAIN o /\ Leaves(n, o[n.blocks[k].to], k)

\* A note is of a few blocks, and of the readers there are.
Noted(n) == Len(n.blocks) \in 0 .. 3 /\ n.open \cup n.closed \subseteq Name

\* An outline of a function: before its first statement nothing is open, after the last
\* one every block has been left and nothing is open again.
Nests(body, o) ==
  /\ Len(body) \in Nat /\ DOMAIN o = 1 .. Len(body) + 1
  /\ o[1] = Before
  /\ o[Len(body) + 1].blocks = <<>> /\ o[Len(body) + 1].open = {}
  /\ \A p \in 1 .. Len(body) :
       Noted(o[p]) /\ Handled(o[p], o) /\ Follows(body, o, p)

\* Whatever is open belongs to a with block.
Guarded(o) == \A p \in DOMAIN o : \A x \in o[p].open : Closes(o[p].blocks, 1, x)

Text == Outline[file][nth]
Here == Text[pc]

Fits(b, a) == b.kind = a.kind /\ b.on = a.on /\ (a.kind # "for" => b.to = a.to)

PlaceInv ==
  /\ file \in DOMAIN Program /\ nth \in 1 .. Len(Program[file]) /\ pc \in 1 .. Len(Body) + 1
  /\ blocks \in Seq(Block)
  /\ readers \in [Name -> {"unbound", "open", "closed"}]
  /\ todo \in Seq(Listed)

BlocksInv == Len(blocks) = Len(Here.blocks)
             /\ \A k \in 1 .. Len(blocks) : Fits(blocks[k], Here.blocks[k])
ReadersInv == /\ \A x \in Name : readers[x] = "open" <=> x \in Here.open
              /\ \A x \in Name : x \in Here.closed => readers[x] = "closed"
ItemInv == Here.item => todo # <<>>

\* An exception that leaves the function has left every block.
LeftInv == /\ blocks = <<>>
           /\ file # "basic_usage" => \A x \in Name : readers[x] # "open"
           /\ ExpectedErrorsAreHandled

TodoInv == Harmless(Body) => \A i \in 1 .. Len(todo) : todo[i] # "invalid-ip"

ProgramInv ==
  /\ PlaceInv /\ TodoInv
  /\ raised = "none" => BlocksInv /\ ReadersInv /\ ItemInv
  /\ raised # "none" => LeftInv

\* In the function with exception handling, what is reported and what is left to do are
\* the addresses, from the loop on.
FourInv ==
  /\ reported \in Seq(Listed)
  /\ file = "context_manager" /\ nth = 2 /\ raised = "none" =>
       /\ pc \in 5 .. 10 => reported \o todo = FourAddresses
       /\ pc \in 11 .. 13 => reported = FourAddresses

\* What the blocks and the notes are.
LEMMA BlocksAre ==
  /\ WithReader.kind = "with" /\ WithReader.on = "reader"
  /\ ForReader.kind = "for" /\ ForReader.on = "reader"
  /\ TryClosed.kind = "try" /\ TryClosed.on = ValueErrors /\ TryClosed.to = 12
  /\ TryOpening.kind = "try" /\ TryOpening.on = {"OSError", "InvalidDatabaseError"}
  /\ TryOpening.to = 14
  /\ TryItem.kind = "try" /\ TryItem.on = ValueErrors /\ TryItem.to = 9
  /\ WithCity.kind = "with" /\ WithCity.on = "city_reader"
  /\ WithCountry.kind = "with" /\ WithCountry.on = "country_reader"
  /\ TryBatch.kind = "try" /\ TryBatch.on = ValueErrors /\ TryBatch.to = 8
BY DEF WithReader, ForReader, TryClosed, TryOpening, TryItem, WithCity, WithCountry,
       TryBatch, WithBlock, ForBlock, TryBlock

LEMMA NotesAre ==
  /\ Len(Before.blocks) = 0 /\ Before.open = {} /\ Before.closed = {} /\ Before.item = FALSE
  /\ Len(InWith.blocks) = 1 /\ InWith.blocks[1] = WithReader
  /\ InWith.open = {"reader"} /\ InWith.closed = {} /\ InWith.item = FALSE
  /\ Len(InBody.blocks) = 1 /\ InBody.blocks[1] = WithReader
  /\ InBody.open = {"reader"} /\ InBody.closed = {} /\ InBody.item = TRUE
  /\ Len(Iterating.blocks) = 2 /\ Iterating.blocks[1] = WithReader
  /\ Iterating.blocks[2] = ForReader
  /\ Iterating.open = {"reader"} /\ Iterating.closed = {} /\ Iterating.item = FALSE
  /\ Len(Closed.blocks) = 0
  /\ Closed.open = {} /\ Closed.closed = {"reader"} /\ Closed.item = FALSE
  /\ Len(Opened.blocks) = 0
  /\ Opened.open = {"reader"} /\ Opened.closed = {} /\ Opened.item = FALSE
  /\ Len(Tried.blocks) = 1 /\ Tried.blocks[1] = TryClosed
  /\ Tried.open = {} /\ Tried.closed = {"reader"} /\ Tried.item = FALSE
  /\ Len(InTry.blocks) = 1 /\ InTry.blocks[1] = TryOpening
  /\ InTry.open = {} /\ InTry.closed = {} /\ InTry.item = FALSE
  /\ Len(InBoth.blocks) = 2 /\ InBoth.blocks[1] = TryOpening /\ InBoth.blocks[2] = WithReader
  /\ InBoth.open = {"reader"} /\ InBoth.closed = {} /\ InBoth.item = FALSE
  /\ Len(InLoop.blocks) = 2 /\ InLoop.blocks[1] = TryOpening /\ InLoop.blocks[2] = WithReader
  /\ InLoop.open = {"reader"} /\ InLoop.closed = {} /\ InLoop.item = TRUE
  /\ Len(InInner.blocks) = 3 /\ InInner.blocks[1] = TryOpening
  /\ InInner.blocks[2] = WithReader /\ InInner.blocks[3] = TryItem
  /\ InInner.open = {"reader"} /\ InInner.closed = {} /\ InInner.item = TRUE
  /\ Len(ClosedInTry.blocks) = 1 /\ ClosedInTry.blocks[1] = TryOpening
  /\ ClosedInTry.open = {} /\ ClosedInTry.closed = {"reader"} /\ ClosedInTry.item = FALSE
  /\ Len(InCity.blocks) = 1 /\ InCity.blocks[1] = WithCity
  /\ InCity.open = {"city_reader"} /\ InCity.closed = {} /\ InCity.item = FALSE
  /\ Len(InCountry.blocks) = 2 /\ InCountry.blocks[1] = WithCity
  /\ InCountry.blocks[2] = WithCountry
  /\ InCountry.open = {"city_reader", "country_reader"} /\ InCountry.closed = {}
  /\ InCountry.item = FALSE
  /\ Len(InCityOnly.blocks) = 1 /\ InCityOnly.blocks[1] = WithCity
  /\ InCityOnly.open = {"city_reader"} /\ InCityOnly.closed = {"country_reader"}
  /\ InCityOnly.item = FALSE
  /\ Len(BothClosed.blocks) = 0
  /\ BothClosed.open = {} /\ BothClosed.closed = {"city_reader", "country_reader"}
  /\ BothClosed.item = FALSE
  /\ Len(Expecting.blocks) = 2 /\ Expecting.blocks[1] = WithReader
  /\ Expecting.blocks[2] = TryBatch
  /\ Expecting.open = {"reader"} /\ Expecting.closed = {} /\ Expecting.item = FALSE
BY DEF Note, Before, InWith, InBody, Iterating, Closed, Opened, Tried,
       InTry, InBoth, InLoop, InInner, ClosedInTry, InCity, InCountry, InCityOnly,
       BothClosed, Expecting

\* Whatever is open belongs to a with block, except in basic_usage.
LEMMA NotesGuarded ==
  \A n \in {Before, InWith, InBody, Iterating, Closed, InTry, InBoth, InLoop, InInner,
            ClosedInTry, InCity, InCountry, InCityOnly, BothClosed, Expecting} :
    \A x \in n.open : Closes(n.blocks, 1, x)
BY NotesAre, BlocksAre DEF Closes

\* Every note is of a few blocks and of the readers there are.
LEMMA NotesNoted ==
  ASSUME NEW n \in {Before, InWith, InBody, Iterating, Closed, Opened, Tried, InTry, InBoth,
                    InLoop, InInner, ClosedInTry, InCity, InCountry, InCityOnly, BothClosed,
                    Expecting}
  PROVE  Noted(n)
BY NotesAre DEF Noted, Name

\* A statement that changes neither blocks nor readers may be followed by one with the same
\* note.
LEMMA NotesStay == \A n : Stays(n, n)
BY DEF Stays, Remains, Neither

\* The notes between which a with block leads,
LEMMA WithIs ==
  /\ WithBlock("reader") = WithReader /\ WithBlock("city_reader") = WithCity
  /\ WithBlock("country_reader") = WithCountry
  /\ {"reader", "city_reader", "country_reader"} = Name
BY DEF WithReader, WithCity, WithCountry, Name

LEMMA WithSteps ==
  /\ Enters(Before, InWith, WithReader) /\ Opens(Before, InWith, "reader")
  /\ Leaves(InWith, Before, 1) /\ Leaves(InWith, Closed, 1)
  /\ Enters(InTry, InBoth, WithReader) /\ Opens(InTry, InBoth, "reader")
  /\ Leaves(InBoth, ClosedInTry, 2)
  /\ Enters(Before, InCity, WithCity) /\ Opens(Before, InCity, "city_reader")
  /\ Enters(InCity, InCountry, WithCountry) /\ Opens(InCity, InCountry, "country_reader")
  /\ Leaves(InCountry, InCityOnly, 2) /\ Leaves(InCityOnly, BothClosed, 1)
<1>1. /\ Enters(Before, InWith, WithReader) /\ Enters(InTry, InBoth, WithReader)
      /\ Enters(Before, InCity, WithCity) /\ Enters(InCity, InCountry, WithCountry)
  BY NotesAre DEF Enters
<1>2. /\ Opens(Before, InWith, "reader") /\ Opens(InTry, InBoth, "reader")
      /\ Opens(Before, InCity, "city_reader") /\ Opens(InCity, InCountry, "country_reader")
  BY NotesAre DEF Opens
<1>3. Leaves(InWith, Before, 1) /\ Leaves(InWith, Closed, 1)
  BY NotesAre, BlocksAre DEF Leaves, Closes
<1>4. Leaves(InBoth, ClosedInTry, 2)
  BY NotesAre, BlocksAre DEF Leaves, Closes
<1>5. Leaves(InCountry, InCityOnly, 2)
  BY NotesAre, BlocksAre DEF Leaves, Closes
<1>6. Leaves(InCityOnly, BothClosed, 1)
  BY NotesAre, BlocksAre DEF Leaves, Closes
<1> QED BY <1>1, <1>2, <1>3, <1>4, <1>5, <1>6

\* a loop,
LEMMA IterateIs == ForBlock("reader") = ForReader /\ "reader" \in Name
BY DEF ForReader, Name

LEMMA LoopSteps ==
  /\ Enters(InWith, Iterating, ForReader) /\ Neither(InWith, Iterating)
  /\ Leaves(Iterating, InWith, 2)
  /\ Remains(InWith, InBody) /\ Neither(InWith, InBody) /\ Stays(InBody, InWith)
  /\ Remains(InBoth, InLoop) /\ Neither(InBoth, InLoop) /\ Stays(InLoop, InBoth)
<1>1. Enters(InWith, Iterating, ForReader) /\ Neither(InWith, Iterating)
  BY NotesAre DEF Enters, Neither
<1>2. Leaves(Iterating, InWith, 2)
  BY NotesAre, BlocksAre DEF Leaves, Closes
<1>3. Remains(InWith, InBody) /\ Neither(InWith, InBody) /\ Stays(InBody, InWith)
  BY NotesAre DEF Stays, Remains, Neither
<1>4. Remains(InBoth, InLoop) /\ Neither(InBoth, InLoop) /\ Stays(InLoop, InBoth)
  BY NotesAre DEF Stays, Remains, Neither
<1> QED BY <1>1, <1>2, <1>3, <1>4

\* a try block,
LEMMA TryIs ==
  /\ TryBlock(ValueErrors, 12) = TryClosed /\ TryBlock(ValueErrors, 9) = TryItem
  /\ TryBlock(ValueErrors, 8) = TryBatch
  /\ TryBlock({"OSError", "InvalidDatabaseError"}, 14) = TryOpening
  /\ ValueErrors \subseteq Errors /\ {"OSError", "InvalidDatabaseError"} \subseteq Errors
BY DEF TryClosed, TryItem, TryBatch, TryOpening, Errors

LEMMA TrySteps ==
  /\ Enters(Closed, Tried, TryClosed) /\ Neither(Closed, Tried) /\ Leaves(Tried, Closed, 1)
  /\ Enters(Before, InTry, TryOpening) /\ Neither(Before, InTry)
  /\ Leaves(ClosedInTry, Closed, 1) /\ Stays(Closed, Before)
  /\ Enters(InLoop, InInner, TryItem) /\ Neither(InLoop, InInner) /\ Leaves(InInner, InLoop, 3)
  /\ Enters(InWith, Expecting, TryBatch) /\ Neither(InWith, Expecting)
  /\ Leaves(Expecting, InWith, 2)
<1>1. /\ Enters(Closed, Tried, TryClosed) /\ Enters(Before, InTry, TryOpening)
      /\ Enters(InLoop, InInner, TryItem) /\ Enters(InWith, Expecting, TryBatch)
  BY NotesAre DEF Enters
<1>2. /\ Neither(Closed, Tried) /\ Neither(Before, InTry) /\ Neither(InLoop, InInner)
      /\ Neither(InWith, Expecting) /\ Stays(Closed, Before)
  BY NotesAre DEF Neither, Stays, Remains
<1>3. Leaves(Tried, Closed, 1) /\ Leaves(ClosedInTry, Closed, 1)
  BY NotesAre, BlocksAre DEF Leaves, Closes
<1>4. Leaves(InInner, InLoop, 3)
  BY NotesAre, BlocksAre DEF Leaves, Closes
<1>5. Leaves(Expecting, InWith, 2)
  BY NotesAre, BlocksAre DEF Leaves, Closes
<1> QED BY <1>1, <1>2, <1>3, <1>4, <1>5

\* the end of a block,
LEMMA EndSteps ==
  /\ \A n \in {InWith, InBoth, InCountry, InCityOnly, Iterating, Tried, ClosedInTry, InInner,
               Expecting} : Len(n.blocks) > 0
  /\ Leaves(InWith, Before, Len(InWith.blocks)) /\ Leaves(InWith, Closed, Len(InWith.blocks))
  /\ Leaves(InBoth, ClosedInTry, Len(InBoth.blocks))
  /\ Leaves(InCountry, InCityOnly, Len(InCountry.blocks))
  /\ Leaves(InCityOnly, BothClosed, Len(InCityOnly.blocks))
  /\ Leaves(Iterating, InWith, Len(Iterating.blocks))
  /\ Iterating.blocks[Len(Iterating.blocks)].kind = "for"
  /\ Leaves(Tried, Closed, Len(Tried.blocks))
  /\ Leaves(ClosedInTry, Closed, Len(ClosedInTry.blocks))
  /\ Leaves(InInner, InLoop, Len(InInner.blocks))
  /\ Leaves(Expecting, InWith, Len(Expecting.blocks))
BY NotesAre, BlocksAre, WithSteps, LoopSteps, TrySteps

\* a lookup where a bad address is expected,
LEMMA BadAddress == Catches(Tried) /\ Catches(InInner) /\ Catches(Expecting)
BY NotesAre, BlocksAre DEF Catches, ValueErrors

\* and an exception that is caught when the database is opened.
LEMMA OpeningHandled ==
  /\ Leaves(InTry, Before, 1) /\ Leaves(InBoth, Before, 1) /\ Leaves(InLoop, Before, 1)
  /\ Leaves(InInner, Before, 1) /\ Leaves(ClosedInTry, Before, 1)
<1>1. Leaves(InTry, Before, 1) /\ Leaves(ClosedInTry, Before, 1)
  BY NotesAre, BlocksAre DEF Leaves, Closes
<1>2. Leaves(InBoth, Before, 1)
  BY NotesAre, BlocksAre DEF Leaves, Closes
<1>3. Leaves(InLoop, Before, 1)
  BY NotesAre, BlocksAre DEF Leaves, Closes
<1>4. Leaves(InInner, Before, 1)
  BY NotesAre, BlocksAre DEF Leaves, Closes
<1> QED BY <1>1, <1>2, <1>3, <1>4

\* Where there is no try block, there is nothing to handle.
LEMMA NothingHandled ==
  ASSUME NEW n \in {Before, InWith, InBody, Iterating, Closed, Opened, InCity, InCountry,
                    InCityOnly, BothClosed}, NEW o
  PROVE  Handled(n, o)
BY NotesAre, BlocksAre DEF Handled

\* The lists that are gone through.
LEMMA ListsAre ==
  /\ FourAddresses \in Seq(Listed)
  /\ <<"8.8.8.8", "1.1.1.1">> \in Seq(Listed) /\ <<"first", "second">> \in Seq(Listed)
BY DEF FourAddresses, Listed

\* How a statement of each kind follows its outline.
LEMMA EndFollows ==
  ASSUME NEW body, NEW o, NEW p, body[p].do = "end", Len(o[p].blocks) > 0,
         Leaves(o[p], o[p + 1], Len(o[p].blocks))
  PROVE  Follows(body, o, p)
BY DEF Follows

LEMMA TryFollows ==
  ASSUME NEW body, NEW o, NEW p, NEW es, NEW handler \in Nat,
         body[p].do = "try", body[p].on = es, body[p].arg = handler, es \subseteq Errors,
         Enters(o[p], o[p + 1], TryBlock(es, handler)), Neither(o[p], o[p + 1])
  PROVE  Follows(body, o, p)
BY DEF Follows

LEMMA ForEachFollows ==
  ASSUME NEW body, NEW o, NEW p, body[p].do = "foreach", body[p].arg \in Seq(Listed),
         o[p + 1] = o[p], o[p].item = FALSE
  PROVE  Follows(body, o, p)
BY NotesStay DEF Follows

LEMMA AdvanceFollows ==
  ASSUME NEW body, NEW o, NEW p, NEW out \in DOMAIN o,
         body[p].do \in {"advance", "break"}, body[p].arg = out, o[p + 1] = o[p],
         Len(o[p].blocks) > 0, o[p].blocks[Len(o[p].blocks)].kind = "for",
         Leaves(o[p], o[out], Len(o[p].blocks))
  PROVE  Follows(body, o, p)
BY NotesStay DEF Follows

LEMMA GetFollows ==
  ASSUME NEW body, NEW o, NEW p, body[p].do = "get", o[p + 1] = o[p],
         Expected(body, body[p], o[p])
  PROVE  Follows(body, o, p)
BY NotesStay DEF Follows

LEMMA WithFollows ==
  ASSUME NEW body, NEW o, NEW p, NEW x \in Name, body[p].do = "with", body[p].on = x,
         Enters(o[p], o[p + 1], WithBlock(x)), Opens(o[p], o[p + 1], x)
  PROVE  Follows(body, o, p)
BY DEF Follows

\* The function of basic_usage.py does what its outline says,
LEMMA UsageNests == Nests(BasicUsage, UsageOutline)
<1> DEFINE b == BasicUsage
           o == UsageOutline
<1>1. /\ o[1] = Before /\ o[2] = Opened /\ o[3] = Opened /\ o[4] = Opened /\ o[5] = Opened
      /\ o[6] = Opened /\ o[7] = Opened /\ o[8] = Closed /\ o[9] = Closed /\ o[10] = Tried
      /\ o[11] = Tried /\ o[12] = Closed
  BY DEF UsageOutline
<1>2. /\ b[1].do = "open" /\ b[1].on = "reader"
      /\ b[2].do = "get" /\ b[2].on = "reader" /\ b[2].arg = "8.8.8.8"
      /\ b[3].do = "get" /\ b[3].on = "reader" /\ b[3].arg = "1.1.1.1"
      /\ b[4].do = "get" /\ b[4].on = "reader" /\ b[4].arg = "208.67.222.222"
      /\ b[5].do = "metadata" /\ b[5].on = "reader"
      /\ b[6].do = "says" /\ b[6].on = {"reader"} /\ b[6].arg = FALSE
      /\ b[7].do = "close" /\ b[7].on = "reader"
      /\ b[8].do = "says" /\ b[8].on = {"reader"} /\ b[8].arg = TRUE
      /\ b[9].do = "try" /\ b[9].on = ValueErrors /\ b[9].arg = 12
      /\ b[10].do = "get" /\ b[10].on = "reader" /\ b[10].arg = "8.8.8.8"
      /\ b[11].do = "end"
  BY DEF BasicUsage, Open, Get, Metadata, Says, Close, Try, End, Statement
<1>3. Len(BasicUsage) = 11 /\ DOMAIN o = 1 .. 12
  BY DEF BasicUsage, UsageOutline
<1> HIDE DEF b, o
<1>4. ASSUME NEW p \in 1 .. 11 PROVE Follows(b, o, p)
  <2>1. CASE p = 1
    <3>1. b[p].do = "open" /\ b[p].on = "reader" /\ o[p] = Before /\ o[p + 1] = Opened
      BY <1>1, <1>2, <2>1
    <3> QED BY <3>1, NotesAre DEF Follows, Opens, Remains, Name
  <2>2. CASE p = 2
    <3>1. /\ b[p].do = "get" /\ b[p].on = "reader" /\ b[p].arg = "8.8.8.8" /\ o[p] = Opened
          /\ o[p + 1] = Opened
      BY <1>1, <1>2, <2>2
    <3> QED BY <3>1, NotesAre, GetFollows DEF Expected
  <2>3. CASE p = 3
    <3>1. /\ b[p].do = "get" /\ b[p].on = "reader" /\ b[p].arg = "1.1.1.1" /\ o[p] = Opened
          /\ o[p + 1] = Opened
      BY <1>1, <1>2, <2>3
    <3> QED BY <3>1, NotesAre, GetFollows DEF Expected
  <2>4. CASE p = 4
    <3>1. /\ b[p].do = "get" /\ b[p].on = "reader" /\ b[p].arg = "208.67.222.222"
          /\ o[p] = Opened /\ o[p + 1] = Opened
      BY <1>1, <1>2, <2>4
    <3> QED BY <3>1, NotesAre, GetFollows DEF Expected
  <2>5. CASE p = 5
    <3>1. b[p].do = "metadata" /\ o[p] = Opened /\ o[p + 1] = Opened
      BY <1>1, <1>2, <2>5
    <3> QED BY <3>1, NotesStay DEF Follows
  <2>6. CASE p = 6
    <3>1. /\ b[p].do = "says" /\ b[p].on = {"reader"} /\ b[p].arg = FALSE /\ o[p] = Opened
          /\ o[p + 1] = Opened
      BY <1>1, <1>2, <2>6
    <3> QED BY <3>1, NotesAre, NotesStay DEF Follows, Name
  <2>7. CASE p = 7
    <3>1. b[p].do = "close" /\ b[p].on = "reader" /\ o[p] = Opened /\ o[p + 1] = Closed
      BY <1>1, <1>2, <2>7
    <3> QED BY <3>1, NotesAre DEF Follows, Shuts, Remains, Name
  <2>8. CASE p = 8
    <3>1. /\ b[p].do = "says" /\ b[p].on = {"reader"} /\ b[p].arg = TRUE /\ o[p] = Closed
          /\ o[p + 1] = Closed
      BY <1>1, <1>2, <2>8
    <3> QED BY <3>1, NotesAre, NotesStay DEF Follows, Name
  <2>9. CASE p = 9
    <3>1. /\ b[p].do = "try" /\ b[p].on = ValueErrors /\ b[p].arg = 12 /\ o[p] = Closed
          /\ o[p + 1] = Tried
      BY <1>1, <1>2, <2>9
    <3> QED BY <3>1, TryIs, TrySteps, TryFollows
  <2>10. CASE p = 10
    <3>1. /\ b[p].do = "get" /\ b[p].on = "reader" /\ b[p].arg = "8.8.8.8" /\ o[p] = Tried
          /\ o[p + 1] = Tried
      BY <1>1, <1>2, <2>10
    <3> QED BY <3>1, NotesAre, GetFollows, BadAddress DEF Expected
  <2>11. CASE p = 11
    <3>1. b[p].do = "end" /\ o[p] = Tried /\ o[p + 1] = Closed
      BY <1>1, <1>2, <2>11
    <3> QED BY <3>1, EndSteps, EndFollows
  <2> QED BY <1>4, <2>1, <2>2, <2>3, <2>4, <2>5, <2>6, <2>7, <2>8, <2>9, <2>10, <2>11
<1>5. ASSUME NEW n \in {Tried} PROVE Handled(n, o)
  <2>1. CASE n = Tried
    BY <1>1, <1>3, <2>1, NotesAre, BlocksAre, TrySteps DEF Handled
  <2> QED BY <1>5, <2>1
<1>6. ASSUME NEW p \in 1 .. 11 PROVE Noted(o[p]) /\ Handled(o[p], o)
  BY <1>6, <1>1, <1>5, NotesNoted, NothingHandled
<1>7. o[1] = Before /\ o[12].blocks = <<>> /\ o[12].open = {}
  BY <1>1 DEF Before, Closed, BothClosed, Note
<1> QED BY <1>3, <1>4, <1>6, <1>7 DEF Nests, b, o

\* and so do those of context_manager.py,
LEMMA ManagerNests == Nests(BasicContextManager, ManagerOutline) /\ Guarded(ManagerOutline)
<1> DEFINE b == BasicContextManager
           o == ManagerOutline
<1>1. /\ o[1] = Before /\ o[2] = InWith /\ o[3] = InWith /\ o[4] = InWith /\ o[5] = Closed
      /\ o[6] = Closed
  BY DEF ManagerOutline
<1>2. /\ b[1].do = "with" /\ b[1].on = "reader"
      /\ b[2].do = "says" /\ b[2].on = {"reader"} /\ b[2].arg = FALSE
      /\ b[3].do = "get" /\ b[3].on = "reader" /\ b[3].arg = "8.8.8.8" /\ b[4].do = "end"
      /\ b[5].do = "says" /\ b[5].on = {"reader"} /\ b[5].arg = TRUE
  BY DEF BasicContextManager, With, Says, Get, End, Statement
<1>3. Len(BasicContextManager) = 5 /\ DOMAIN o = 1 .. 6
  BY DEF BasicContextManager, ManagerOutline
<1> HIDE DEF b, o
<1>4. ASSUME NEW p \in 1 .. 5 PROVE Follows(b, o, p)
  <2>1. CASE p = 1
    <3>1. b[p].do = "with" /\ b[p].on = "reader" /\ o[p] = Before /\ o[p + 1] = InWith
      BY <1>1, <1>2, <2>1
    <3> QED BY <3>1, WithIs, WithSteps, WithFollows
  <2>2. CASE p = 2
    <3>1. /\ b[p].do = "says" /\ b[p].on = {"reader"} /\ b[p].arg = FALSE /\ o[p] = InWith
          /\ o[p + 1] = InWith
      BY <1>1, <1>2, <2>2
    <3> QED BY <3>1, NotesAre, NotesStay DEF Follows, Name
  <2>3. CASE p = 3
    <3>1. /\ b[p].do = "get" /\ b[p].on = "reader" /\ b[p].arg = "8.8.8.8" /\ o[p] = InWith
          /\ o[p + 1] = InWith
      BY <1>1, <1>2, <2>3
    <3> QED BY <3>1, NotesAre, GetFollows DEF Expected
  <2>4. CASE p = 4
    <3>1. b[p].do = "end" /\ o[p] = InWith /\ o[p + 1] = Closed
      BY <1>1, <1>2, <2>4
    <3> QED BY <3>1, EndSteps, EndFollows
  <2>5. CASE p = 5
    <3>1. /\ b[p].do = "says" /\ b[p].on = {"reader"} /\ b[p].arg = TRUE /\ o[p] = Closed
          /\ o[p + 1] = Closed
      BY <1>1, <1>2, <2>5
    <3> QED BY <3>1, NotesAre, NotesStay DEF Follows, Name
  <2> QED BY <1>4, <2>1, <2>2, <2>3, <2>4, <2>5
<1>6. ASSUME NEW p \in 1 .. 5 PROVE Noted(o[p]) /\ Handled(o[p], o)
  BY <1>6, <1>1, NotesNoted, NothingHandled
<1>7. o[1] = Before /\ o[6].blocks = <<>> /\ o[6].open = {}
  BY <1>1 DEF Before, Closed, BothClosed, Note
<1>8. Guarded(o)
  BY <1>1, <1>3, NotesGuarded DEF Guarded
<1> QED BY <1>3, <1>4, <1>6, <1>7, <1>8 DEF Nests, b, o

\* with exception handling,
LEMMA HandlingNests == Nests(ExceptionHandling, HandlingOutline) /\ Guarded(HandlingOutline)
<1> DEFINE b == ExceptionHandling
           o == HandlingOutline
<1>1. /\ o[1] = Before /\ o[2] = InTry /\ o[3] = InBoth /\ o[4] = InBoth /\ o[5] = InBoth
      /\ o[6] = InLoop /\ o[7] = InInner /\ o[8] = InInner /\ o[9] = InLoop
      /\ o[10] = InBoth /\ o[11] = InBoth /\ o[12] = ClosedInTry /\ o[13] = Closed
      /\ o[14] = Before
  BY DEF HandlingOutline
<1>2. /\ b[1].do = "try" /\ b[1].on = {"OSError", "InvalidDatabaseError"} /\ b[1].arg = 14
      /\ b[2].do = "with" /\ b[2].on = "reader"
      /\ b[3].do = "says" /\ b[3].on = {"reader"} /\ b[3].arg = FALSE
      /\ b[4].do = "foreach" /\ b[4].arg = FourAddresses
      /\ b[5].do = "next" /\ b[5].arg = 11
      /\ b[6].do = "try" /\ b[6].on = ValueErrors /\ b[6].arg = 9
      /\ b[7].do = "get" /\ b[7].on = "reader" /\ b[7].arg = "item" /\ b[8].do = "end"
      /\ b[9].do = "report" /\ b[10].do = "goto" /\ b[10].arg = 5 /\ b[11].do = "end"
      /\ b[12].do = "end" /\ b[13].do = "says" /\ b[13].on = {"reader"} /\ b[13].arg = TRUE
  BY DEF ExceptionHandling, Try, With, Says, ForEach, Next, Get, End, Report, Goto, Statement
<1>3. Len(ExceptionHandling) = 13 /\ DOMAIN o = 1 .. 14
  BY DEF ExceptionHandling, HandlingOutline
<1> HIDE DEF b, o
<1>b. b[4].arg \in Seq(Listed)
  BY <1>2, ListsAre
<1>4. ASSUME NEW p \in 1 .. 13 PROVE Follows(b, o, p)
  <2>1. CASE p = 1
    <3>1. /\ b[p].do = "try" /\ b[p].on = {"OSError", "InvalidDatabaseError"}
          /\ b[p].arg = 14 /\ o[p] = Before /\ o[p + 1] = InTry
      BY <1>1, <1>2, <2>1
    <3> QED BY <3>1, TryIs, TrySteps, TryFollows
  <2>2. CASE p = 2
    <3>1. b[p].do = "with" /\ b[p].on = "reader" /\ o[p] = InTry /\ o[p + 1] = InBoth
      BY <1>1, <1>2, <2>2
    <3> QED BY <3>1, WithIs, WithSteps, WithFollows
  <2>3. CASE p = 3
    <3>1. /\ b[p].do = "says" /\ b[p].on = {"reader"} /\ b[p].arg = FALSE /\ o[p] = InBoth
          /\ o[p + 1] = InBoth
      BY <1>1, <1>2, <2>3
    <3> QED BY <3>1, NotesAre, NotesStay DEF Follows, Name
  <2>4. CASE p = 4
    <3>1. b[p].do = "foreach" /\ o[p] = InBoth /\ o[p + 1] = InBoth
      BY <1>1, <1>2, <2>4
    <3>2. b[p].arg \in Seq(Listed)
      BY <1>b, <2>4
    <3> QED BY <3>1, <3>2, NotesAre, ForEachFollows
  <2>5. CASE p = 5
    <3>1. /\ b[p].do = "next" /\ b[p].arg = 11 /\ o[p] = InBoth /\ o[p + 1] = InLoop
          /\ 11 \in DOMAIN o /\ o[11] = InBoth
      BY <1>1, <1>2, <1>3, <2>5
    <3> QED BY <3>1, NotesStay, LoopSteps DEF Follows
  <2>6. CASE p = 6
    <3>1. /\ b[p].do = "try" /\ b[p].on = ValueErrors /\ b[p].arg = 9 /\ o[p] = InLoop
          /\ o[p + 1] = InInner
      BY <1>1, <1>2, <2>6
    <3> QED BY <3>1, TryIs, TrySteps, TryFollows
  <2>7. CASE p = 7
    <3>1. /\ b[p].do = "get" /\ b[p].on = "reader" /\ b[p].arg = "item" /\ o[p] = InInner
          /\ o[p + 1] = InInner
      BY <1>1, <1>2, <2>7
    <3> QED BY <3>1, NotesAre, GetFollows, BadAddress DEF Expected
  <2>8. CASE p = 8
    <3>1. b[p].do = "end" /\ o[p] = InInner /\ o[p + 1] = InLoop
      BY <1>1, <1>2, <2>8
    <3> QED BY <3>1, EndSteps, EndFollows
  <2>9. CASE p = 9
    <3>1. b[p].do = "report" /\ o[p] = InLoop /\ o[p + 1] = InBoth
      BY <1>1, <1>2, <2>9
    <3> QED BY <3>1, NotesAre, LoopSteps DEF Follows
  <2>10. CASE p = 10
    <3>1. /\ b[p].do = "goto" /\ b[p].arg = 5 /\ o[p] = InBoth /\ o[p + 1] = InBoth
          /\ 5 \in DOMAIN o /\ o[5] = InBoth
      BY <1>1, <1>2, <1>3, <2>10
    <3> QED BY <3>1, NotesStay DEF Follows
  <2>11. CASE p = 11
    <3>1. b[p].do = "end" /\ o[p] = InBoth /\ o[p + 1] = ClosedInTry
      BY <1>1, <1>2, <2>11
    <3> QED BY <3>1, EndSteps, EndFollows
  <2>12. CASE p = 12
    <3>1. b[p].do = "end" /\ o[p] = ClosedInTry /\ o[p + 1] = Closed
      BY <1>1, <1>2, <2>12
    <3> QED BY <3>1, EndSteps, EndFollows
  <2>13. CASE p = 13
    <3>1. /\ b[p].do = "says" /\ b[p].on = {"reader"} /\ b[p].arg = TRUE /\ o[p] = Closed
          /\ o[p + 1] = Before
      BY <1>1, <1>2, <2>13
    <3> QED BY <3>1, NotesAre, NotesStay, TrySteps DEF Follows, Name
  <2> QED BY <1>4, <2>1, <2>2, <2>3, <2>4, <2>5, <2>6, <2>7, <2>8, <2>9, <2>10, <2>11, <2>12, <2>13
<1>5. ASSUME NEW n \in {InTry, InBoth, InLoop, InInner, ClosedInTry} PROVE Handled(n, o)
  <2>1. CASE n = InTry
    BY <1>1, <1>3, <2>1, NotesAre, BlocksAre, OpeningHandled DEF Handled
  <2>2. CASE n = InBoth
    BY <1>1, <1>3, <2>2, NotesAre, BlocksAre, OpeningHandled DEF Handled
  <2>3. CASE n = InLoop
    BY <1>1, <1>3, <2>3, NotesAre, BlocksAre, OpeningHandled DEF Handled
  <2>4. CASE n = InInner
    BY <1>1, <1>3, <2>4, NotesAre, BlocksAre, TrySteps, OpeningHandled DEF Handled
  <2>5. CASE n = ClosedInTry
    BY <1>1, <1>3, <2>5, NotesAre, BlocksAre, OpeningHandled DEF Handled
  <2> QED BY <1>5, <2>1, <2>2, <2>3, <2>4, <2>5
<1>6. ASSUME NEW p \in 1 .. 13 PROVE Noted(o[p]) /\ Handled(o[p], o)
  BY <1>6, <1>1, <1>5, NotesNoted, NothingHandled
<1>7. o[1] = Before /\ o[14].blocks = <<>> /\ o[14].open = {}
  BY <1>1 DEF Before, Closed, BothClosed, Note
<1>8. Guarded(o)
  BY <1>1, <1>3, NotesGuarded DEF Guarded
<1> QED BY <1>3, <1>4, <1>6, <1>7, <1>8 DEF Nests, b, o

\* with two readers,
LEMMA MultipleNests == Nests(MultipleDatabases, MultipleOutline) /\ Guarded(MultipleOutline)
<1> DEFINE b == MultipleDatabases
           o == MultipleOutline
<1>1. /\ o[1] = Before /\ o[2] = InCity /\ o[3] = InCountry /\ o[4] = InCountry
      /\ o[5] = InCountry /\ o[6] = InCityOnly /\ o[7] = BothClosed /\ o[8] = BothClosed
  BY DEF MultipleOutline
<1>2. /\ b[1].do = "with" /\ b[1].on = "city_reader"
      /\ b[2].do = "with" /\ b[2].on = "country_reader"
      /\ b[3].do = "get" /\ b[3].on = "city_reader" /\ b[3].arg = "8.8.8.8"
      /\ b[4].do = "get" /\ b[4].on = "country_reader" /\ b[4].arg = "8.8.8.8"
      /\ b[5].do = "end" /\ b[6].do = "end"
      /\ b[7].do = "says" /\ b[7].on = {"city_reader", "country_reader"} /\ b[7].arg = TRUE
  BY DEF MultipleDatabases, With, Get, End, Says, Statement
<1>3. Len(MultipleDatabases) = 7 /\ DOMAIN o = 1 .. 8
  BY DEF MultipleDatabases, MultipleOutline
<1> HIDE DEF b, o
<1>4. ASSUME NEW p \in 1 .. 7 PROVE Follows(b, o, p)
  <2>1. CASE p = 1
    <3>1. /\ b[p].do = "with" /\ b[p].on = "city_reader" /\ o[p] = Before
          /\ o[p + 1] = InCity
      BY <1>1, <1>2, <2>1
    <3> QED BY <3>1, WithIs, WithSteps, WithFollows
  <2>2. CASE p = 2
    <3>1. /\ b[p].do = "with" /\ b[p].on = "country_reader" /\ o[p] = InCity
          /\ o[p + 1] = InCountry
      BY <1>1, <1>2, <2>2
    <3> QED BY <3>1, WithIs, WithSteps, WithFollows
  <2>3. CASE p = 3
    <3>1. /\ b[p].do = "get" /\ b[p].on = "city_reader" /\ b[p].arg = "8.8.8.8"
          /\ o[p] = InCountry /\ o[p + 1] = InCountry
      BY <1>1, <1>2, <2>3
    <3> QED BY <3>1, NotesAre, GetFollows DEF Expected
  <2>4. CASE p = 4
    <3>1. /\ b[p].do = "get" /\ b[p].on = "country_reader" /\ b[p].arg = "8.8.8.8"
          /\ o[p] = InCountry /\ o[p + 1] = InCountry
      BY <1>1, <1>2, <2>4
    <3> QED BY <3>1, NotesAre, GetFollows DEF Expected
  <2>5. CASE p = 5
    <3>1. b[p].do = "end" /\ o[p] = InCountry /\ o[p + 1] = InCityOnly
      BY <1>1, <1>2, <2>5
    <3> QED BY <3>1, EndSteps, EndFollows
  <2>6. CASE p = 6
    <3>1. b[p].do = "end" /\ o[p] = InCityOnly /\ o[p + 1] = BothClosed
      BY <1>1, <1>2, <2>6
    <3> QED BY <3>1, EndSteps, EndFollows
  <2>7. CASE p = 7
    <3>1. /\ b[p].do = "says" /\ b[p].on = {"city_reader", "country_reader"}
          /\ b[p].arg = TRUE /\ o[p] = BothClosed /\ o[p + 1] = BothClosed
      BY <1>1, <1>2, <2>7
    <3> QED BY <3>1, NotesAre, NotesStay DEF Follows, Name
  <2> QED BY <1>4, <2>1, <2>2, <2>3, <2>4, <2>5, <2>6, <2>7
<1>6. ASSUME NEW p \in 1 .. 7 PROVE Noted(o[p]) /\ Handled(o[p], o)
  BY <1>6, <1>1, NotesNoted, NothingHandled
<1>7. o[1] = Before /\ o[8].blocks = <<>> /\ o[8].open = {}
  BY <1>1 DEF Before, Closed, BothClosed, Note
<1>8. Guarded(o)
  BY <1>1, <1>3, NotesGuarded DEF Guarded
<1> QED BY <1>3, <1>4, <1>6, <1>7, <1>8 DEF Nests, b, o

\* and with one reader after another,
LEMMA ModesNests == Nests(DifferentModes, ModesOutline) /\ Guarded(ModesOutline)
<1> DEFINE b == DifferentModes
           o == ModesOutline
<1>1. /\ o[1] = Before /\ o[2] = InWith /\ o[3] = InWith /\ o[4] = Before /\ o[5] = InWith
      /\ o[6] = InWith /\ o[7] = Before
  BY DEF ModesOutline
<1>2. /\ b[1].do = "with" /\ b[1].on = "reader"
      /\ b[2].do = "get" /\ b[2].on = "reader" /\ b[2].arg = "8.8.8.8" /\ b[3].do = "end"
      /\ b[4].do = "with" /\ b[4].on = "reader"
      /\ b[5].do = "get" /\ b[5].on = "reader" /\ b[5].arg = "1.1.1.1" /\ b[6].do = "end"
  BY DEF DifferentModes, With, Get, End, Statement
<1>3. Len(DifferentModes) = 6 /\ DOMAIN o = 1 .. 7
  BY DEF DifferentModes, ModesOutline
<1> HIDE DEF b, o
<1>4. ASSUME NEW p \in 1 .. 6 PROVE Follows(b, o, p)
  <2>1. CASE p \in {1, 4}
    <3>1. b[p].do = "with" /\ b[p].on = "reader" /\ o[p] = Before /\ o[p + 1] = InWith
      BY <1>1, <1>2, <2>1
    <3> QED BY <3>1, WithIs, WithSteps, WithFollows
  <2>2. CASE p = 2
    <3>1. /\ b[p].do = "get" /\ b[p].on = "reader" /\ b[p].arg = "8.8.8.8" /\ o[p] = InWith
          /\ o[p + 1] = InWith
      BY <1>1, <1>2, <2>2
    <3> QED BY <3>1, NotesAre, GetFollows DEF Expected
  <2>3. CASE p \in {3, 6}
    <3>1. b[p].do = "end" /\ o[p] = InWith /\ o[p + 1] = Before
      BY <1>1, <1>2, <2>3
    <3> QED BY <3>1, EndSteps, EndFollows
  <2>4. CASE p = 5
    <3>1. /\ b[p].do = "get" /\ b[p].on = "reader" /\ b[p].arg = "1.1.1.1" /\ o[p] = InWith
          /\ o[p + 1] = InWith
      BY <1>1, <1>2, <2>4
    <3> QED BY <3>1, NotesAre, GetFollows DEF Expected
  <2> QED BY <1>4, <2>1, <2>2, <2>3, <2>4
<1>6. ASSUME NEW p \in 1 .. 6 PROVE Noted(o[p]) /\ Handled(o[p], o)
  BY <1>6, <1>1, NotesNoted, NothingHandled
<1>7. o[1] = Before /\ o[7].blocks = <<>> /\ o[7].open = {}
  BY <1>1 DEF Before, Closed, BothClosed, Note
<1>8. Guarded(o)
  BY <1>1, <1>3, NotesGuarded DEF Guarded
<1> QED BY <1>3, <1>4, <1>6, <1>7, <1>8 DEF Nests, b, o

\* those of iterator_demo.py,
LEMMA IterationNests == Nests(BasicIteration, IterationOutline) /\ Guarded(IterationOutline)
<1> DEFINE b == BasicIteration
           o == IterationOutline
<1>1. /\ o[1] = Before /\ o[2] = InWith /\ o[3] = Iterating /\ o[4] = Iterating
      /\ o[5] = InWith /\ o[6] = Before
  BY DEF IterationOutline
<1>2. /\ b[1].do = "with" /\ b[1].on = "reader"
      /\ b[2].do = "iterate" /\ b[2].on = "reader" /\ b[3].do = "advance" /\ b[3].arg = 5
      /\ b[4].do = "goto" /\ b[4].arg = 3 /\ b[5].do = "end"
  BY DEF BasicIteration, With, Iterate, Advance, Goto, End, Statement
<1>3. Len(BasicIteration) = 5 /\ DOMAIN o = 1 .. 6
  BY DEF BasicIteration, IterationOutline
<1> HIDE DEF b, o
<1>4. ASSUME NEW p \in 1 .. 5 PROVE Follows(b, o, p)
  <2>1. CASE p = 1
    <3>1. b[p].do = "with" /\ b[p].on = "reader" /\ o[p] = Before /\ o[p + 1] = InWith
      BY <1>1, <1>2, <2>1
    <3> QED BY <3>1, WithIs, WithSteps, WithFollows
  <2>2. CASE p = 2
    <3>1. /\ b[p].do = "iterate" /\ b[p].on = "reader" /\ o[p] = InWith
          /\ o[p + 1] = Iterating
      BY <1>1, <1>2, <2>2
    <3> QED BY <3>1, IterateIs, NotesAre, LoopSteps DEF Follows
  <2>3. CASE p = 3
    <3>1. /\ b[p].do = "advance" /\ b[p].arg = 5 /\ o[p] = Iterating /\ o[p + 1] = Iterating
          /\ 5 \in DOMAIN o /\ o[5] = InWith
      BY <1>1, <1>2, <1>3, <2>3
    <3> QED BY <3>1, EndSteps, AdvanceFollows
  <2>4. CASE p = 4
    <3>1. /\ b[p].do = "goto" /\ b[p].arg = 3 /\ o[p] = Iterating /\ o[p + 1] = InWith
          /\ 3 \in DOMAIN o /\ o[3] = Iterating
      BY <1>1, <1>2, <1>3, <2>4
    <3> QED BY <3>1, NotesStay DEF Follows
  <2>5. CASE p = 5
    <3>1. b[p].do = "end" /\ o[p] = InWith /\ o[p + 1] = Before
      BY <1>1, <1>2, <2>5
    <3> QED BY <3>1, EndSteps, EndFollows
  <2> QED BY <1>4, <2>1, <2>2, <2>3, <2>4, <2>5
<1>6. ASSUME NEW p \in 1 .. 5 PROVE Noted(o[p]) /\ Handled(o[p], o)
  BY <1>6, <1>1, NotesNoted, NothingHandled
<1>7. o[1] = Before /\ o[6].blocks = <<>> /\ o[6].open = {}
  BY <1>1 DEF Before, Closed, BothClosed, Note
<1>8. Guarded(o)
  BY <1>1, <1>3, NotesGuarded DEF Guarded
<1> QED BY <1>3, <1>4, <1>6, <1>7, <1>8 DEF Nests, b, o

\* with a break too,
LEMMA BreakNests == Nests(FilterNetworks, BreakOutline) /\ Guarded(BreakOutline)
<1> DEFINE b == FilterNetworks
           o == BreakOutline
<1>1. /\ o[1] = Before /\ o[2] = InWith /\ o[3] = Iterating /\ o[4] = Iterating
      /\ o[5] = Iterating /\ o[6] = InWith /\ o[7] = Before
  BY DEF BreakOutline
<1>2. /\ b[1].do = "with" /\ b[1].on = "reader"
      /\ b[2].do = "iterate" /\ b[2].on = "reader" /\ b[3].do = "advance" /\ b[3].arg = 6
      /\ b[4].do = "break" /\ b[4].arg = 6 /\ b[5].do = "goto" /\ b[5].arg = 3
      /\ b[6].do = "end"
  BY DEF FilterNetworks, With, Iterate, Advance, MayBreak, Goto, End, Statement
<1>3. Len(FilterNetworks) = 6 /\ DOMAIN o = 1 .. 7
  BY DEF FilterNetworks, BreakOutline
<1> HIDE DEF b, o
<1>4. ASSUME NEW p \in 1 .. 6 PROVE Follows(b, o, p)
  <2>1. CASE p = 1
    <3>1. b[p].do = "with" /\ b[p].on = "reader" /\ o[p] = Before /\ o[p + 1] = InWith
      BY <1>1, <1>2, <2>1
    <3> QED BY <3>1, WithIs, WithSteps, WithFollows
  <2>2. CASE p = 2
    <3>1. /\ b[p].do = "iterate" /\ b[p].on = "reader" /\ o[p] = InWith
          /\ o[p + 1] = Iterating
      BY <1>1, <1>2, <2>2
    <3> QED BY <3>1, IterateIs, NotesAre, LoopSteps DEF Follows
  <2>3. CASE p = 3
    <3>1. /\ b[p].do = "advance" /\ b[p].arg = 6 /\ o[p] = Iterating /\ o[p + 1] = Iterating
          /\ 6 \in DOMAIN o /\ o[6] = InWith
      BY <1>1, <1>2, <1>3, <2>3
    <3> QED BY <3>1, EndSteps, AdvanceFollows
  <2>4. CASE p = 4
    <3>1. /\ b[p].do = "break" /\ b[p].arg = 6 /\ o[p] = Iterating /\ o[p + 1] = Iterating
          /\ 6 \in DOMAIN o /\ o[6] = InWith
      BY <1>1, <1>2, <1>3, <2>4
    <3> QED BY <3>1, EndSteps, AdvanceFollows
  <2>5. CASE p = 5
    <3>1. /\ b[p].do = "goto" /\ b[p].arg = 3 /\ o[p] = Iterating /\ o[p + 1] = InWith
          /\ 3 \in DOMAIN o /\ o[3] = Iterating
      BY <1>1, <1>2, <1>3, <2>5
    <3> QED BY <3>1, NotesStay DEF Follows
  <2>6. CASE p = 6
    <3>1. b[p].do = "end" /\ o[p] = InWith /\ o[p + 1] = Before
      BY <1>1, <1>2, <2>6
    <3> QED BY <3>1, EndSteps, EndFollows
  <2> QED BY <1>4, <2>1, <2>2, <2>3, <2>4, <2>5, <2>6
<1>6. ASSUME NEW p \in 1 .. 6 PROVE Noted(o[p]) /\ Handled(o[p], o)
  BY <1>6, <1>1, NotesNoted, NothingHandled
<1>7. o[1] = Before /\ o[7].blocks = <<>> /\ o[7].open = {}
  BY <1>1 DEF Before, Closed, BothClosed, Note
<1>8. Guarded(o)
  BY <1>1, <1>3, NotesGuarded DEF Guarded
<1> QED BY <1>3, <1>4, <1>6, <1>7, <1>8 DEF Nests, b, o

\* and those of batch_processing.py:
LEMMA LookupNests == Nests(BasicBatchLookup, LookupOutline) /\ Guarded(LookupOutline)
<1> DEFINE b == BasicBatchLookup
           o == LookupOutline
<1>1. /\ o[1] = Before /\ o[2] = InWith /\ o[3] = InWith /\ o[4] = Before
  BY DEF LookupOutline
<1>2. /\ b[1].do = "with" /\ b[1].on = "reader"
      /\ b[2].do = "get" /\ b[2].on = "reader" /\ b[2].arg = "1.1.1.1" /\ b[3].do = "end"
  BY DEF BasicBatchLookup, With, Get, End, Statement
<1>3. Len(BasicBatchLookup) = 3 /\ DOMAIN o = 1 .. 4
  BY DEF BasicBatchLookup, LookupOutline
<1> HIDE DEF b, o
<1>4. ASSUME NEW p \in 1 .. 3 PROVE Follows(b, o, p)
  <2>1. CASE p = 1
    <3>1. b[p].do = "with" /\ b[p].on = "reader" /\ o[p] = Before /\ o[p + 1] = InWith
      BY <1>1, <1>2, <2>1
    <3> QED BY <3>1, WithIs, WithSteps, WithFollows
  <2>2. CASE p = 2
    <3>1. /\ b[p].do = "get" /\ b[p].on = "reader" /\ b[p].arg = "1.1.1.1" /\ o[p] = InWith
          /\ o[p + 1] = InWith
      BY <1>1, <1>2, <2>2
    <3> QED BY <3>1, NotesAre, GetFollows DEF Expected
  <2>3. CASE p = 3
    <3>1. b[p].do = "end" /\ o[p] = InWith /\ o[p + 1] = Before
      BY <1>1, <1>2, <2>3
    <3> QED BY <3>1, EndSteps, EndFollows
  <2> QED BY <1>4, <2>1, <2>2, <2>3
<1>6. ASSUME NEW p \in 1 .. 3 PROVE Noted(o[p]) /\ Handled(o[p], o)
  BY <1>6, <1>1, NotesNoted, NothingHandled
<1>7. o[1] = Before /\ o[4].blocks = <<>> /\ o[4].open = {}
  BY <1>1 DEF Before, Closed, BothClosed, Note
<1>8. Guarded(o)
  BY <1>1, <1>3, NotesGuarded DEF Guarded
<1> QED BY <1>3, <1>4, <1>6, <1>7, <1>8 DEF Nests, b, o

\* a lookup for each address,
LEMMA ComparisonNests ==
  Nests(PerformanceComparison, ComparisonOutline) /\ Guarded(ComparisonOutline)
<1> DEFINE b == PerformanceComparison
           o == ComparisonOutline
<1>1. /\ o[1] = Before /\ o[2] = InWith /\ o[3] = InWith /\ o[4] = InBody /\ o[5] = InBody
      /\ o[6] = InWith /\ o[7] = InWith /\ o[8] = InWith /\ o[9] = Before
  BY DEF ComparisonOutline
<1>2. /\ b[1].do = "with" /\ b[1].on = "reader"
      /\ b[2].do = "foreach" /\ b[2].arg = <<"8.8.8.8", "1.1.1.1">>
      /\ b[3].do = "next" /\ b[3].arg = 7
      /\ b[4].do = "get" /\ b[4].on = "reader" /\ b[4].arg = "item" /\ b[5].do = "report"
      /\ b[6].do = "goto" /\ b[6].arg = 3
      /\ b[7].do = "get" /\ b[7].on = "reader" /\ b[7].arg = "1.1.1.1" /\ b[8].do = "end"
  BY DEF PerformanceComparison, With, ForEach, Next, Get, Report, Goto, End, Statement
<1>3. Len(PerformanceComparison) = 8 /\ DOMAIN o = 1 .. 9
  BY DEF PerformanceComparison, ComparisonOutline
<1> HIDE DEF b, o
<1>a. Harmless(b)
  BY <1>2, <1>3 DEF Harmless, b
<1>b. b[2].arg \in Seq(Listed)
  BY <1>2, ListsAre
<1>4. ASSUME NEW p \in 1 .. 8 PROVE Follows(b, o, p)
  <2>1. CASE p = 1
    <3>1. b[p].do = "with" /\ b[p].on = "reader" /\ o[p] = Before /\ o[p + 1] = InWith
      BY <1>1, <1>2, <2>1
    <3> QED BY <3>1, WithIs, WithSteps, WithFollows
  <2>2. CASE p = 2
    <3>1. b[p].do = "foreach" /\ o[p] = InWith /\ o[p + 1] = InWith
      BY <1>1, <1>2, <2>2
    <3>2. b[p].arg \in Seq(Listed)
      BY <1>b, <2>2
    <3> QED BY <3>1, <3>2, NotesAre, ForEachFollows
  <2>3. CASE p = 3
    <3>1. /\ b[p].do = "next" /\ b[p].arg = 7 /\ o[p] = InWith /\ o[p + 1] = InBody
          /\ 7 \in DOMAIN o /\ o[7] = InWith
      BY <1>1, <1>2, <1>3, <2>3
    <3> QED BY <3>1, NotesStay, LoopSteps DEF Follows
  <2>4. CASE p = 4
    <3>1. /\ b[p].do = "get" /\ b[p].on = "reader" /\ b[p].arg = "item" /\ o[p] = InBody
          /\ o[p + 1] = InBody
      BY <1>1, <1>2, <2>4
    <3> QED BY <3>1, NotesAre, GetFollows, <1>a DEF Expected
  <2>5. CASE p = 5
    <3>1. b[p].do = "report" /\ o[p] = InBody /\ o[p + 1] = InWith
      BY <1>1, <1>2, <2>5
    <3> QED BY <3>1, NotesAre, LoopSteps DEF Follows
  <2>6. CASE p = 6
    <3>1. /\ b[p].do = "goto" /\ b[p].arg = 3 /\ o[p] = InWith /\ o[p + 1] = InWith
          /\ 3 \in DOMAIN o /\ o[3] = InWith
      BY <1>1, <1>2, <1>3, <2>6
    <3> QED BY <3>1, NotesStay DEF Follows
  <2>7. CASE p = 7
    <3>1. /\ b[p].do = "get" /\ b[p].on = "reader" /\ b[p].arg = "1.1.1.1" /\ o[p] = InWith
          /\ o[p + 1] = InWith
      BY <1>1, <1>2, <2>7
    <3> QED BY <3>1, NotesAre, GetFollows DEF Expected
  <2>8. CASE p = 8
    <3>1. b[p].do = "end" /\ o[p] = InWith /\ o[p + 1] = Before
      BY <1>1, <1>2, <2>8
    <3> QED BY <3>1, EndSteps, EndFollows
  <2> QED BY <1>4, <2>1, <2>2, <2>3, <2>4, <2>5, <2>6, <2>7, <2>8
<1>6. ASSUME NEW p \in 1 .. 8 PROVE Noted(o[p]) /\ Handled(o[p], o)
  BY <1>6, <1>1, NotesNoted, NothingHandled
<1>7. o[1] = Before /\ o[9].blocks = <<>> /\ o[9].open = {}
  BY <1>1 DEF Before, Closed, BothClosed, Note
<1>8. Guarded(o)
  BY <1>1, <1>3, NotesGuarded DEF Guarded
<1> QED BY <1>3, <1>4, <1>6, <1>7, <1>8 DEF Nests, b, o

\* a batch with a bad address,
LEMMA ErrorNests == Nests(BatchWithErrorHandling, ErrorOutline) /\ Guarded(ErrorOutline)
<1> DEFINE b == BatchWithErrorHandling
           o == ErrorOutline
<1>1. /\ o[1] = Before /\ o[2] = InWith /\ o[3] = Expecting /\ o[4] = Expecting
      /\ o[5] = Expecting /\ o[6] = Expecting /\ o[7] = Expecting /\ o[8] = InWith
      /\ o[9] = Before
  BY DEF ErrorOutline
<1>2. /\ b[1].do = "with" /\ b[1].on = "reader"
      /\ b[2].do = "try" /\ b[2].on = ValueErrors /\ b[2].arg = 8
      /\ b[3].do = "get" /\ b[3].on = "reader" /\ b[3].arg = "8.8.8.8"
      /\ b[4].do = "get" /\ b[4].on = "reader" /\ b[4].arg = "1.1.1.1"
      /\ b[5].do = "get" /\ b[5].on = "reader" /\ b[5].arg = "invalid-ip"
      /\ b[6].do = "get" /\ b[6].on = "reader" /\ b[6].arg = "208.67.222.222"
      /\ b[7].do = "end" /\ b[8].do = "end"
  BY DEF BatchWithErrorHandling, With, Try, Get, End, Statement
<1>3. Len(BatchWithErrorHandling) = 8 /\ DOMAIN o = 1 .. 9
  BY DEF BatchWithErrorHandling, ErrorOutline
<1> HIDE DEF b, o
<1>4. ASSUME NEW p \in 1 .. 8 PROVE Follows(b, o, p)
  <2>1. CASE p = 1
    <3>1. b[p].do = "with" /\ b[p].on = "reader" /\ o[p] = Before /\ o[p + 1] = InWith
      BY <1>1, <1>2, <2>1
    <3> QED BY <3>1, WithIs, WithSteps, WithFollows
  <2>2. CASE p = 2
    <3>1. /\ b[p].do = "try" /\ b[p].on = ValueErrors /\ b[p].arg = 8 /\ o[p] = InWith
          /\ o[p + 1] = Expecting
      BY <1>1, <1>2, <2>2
    <3> QED BY <3>1, TryIs, TrySteps, TryFollows
  <2>3. CASE p \in 3 .. 6
    <3>1. /\ b[p].do = "get" /\ b[p].on = "reader" /\ b[p].arg # "item"
          /\ o[p] = Expecting /\ o[p + 1] = Expecting
      BY <1>1, <1>2, <2>3
    <3> QED BY <3>1, NotesAre, GetFollows, BadAddress DEF Expected
  <2>4. CASE p = 7
    <3>1. b[p].do = "end" /\ o[p] = Expecting /\ o[p + 1] = InWith
      BY <1>1, <1>2, <2>4
    <3> QED BY <3>1, EndSteps, EndFollows
  <2>5. CASE p = 8
    <3>1. b[p].do = "end" /\ o[p] = InWith /\ o[p + 1] = Before
      BY <1>1, <1>2, <2>5
    <3> QED BY <3>1, EndSteps, EndFollows
  <2> QED BY <1>4, <2>1, <2>2, <2>3, <2>4, <2>5
<1>5. ASSUME NEW n \in {Expecting} PROVE Handled(n, o)
  <2>1. CASE n = Expecting
    BY <1>1, <1>3, <2>1, NotesAre, BlocksAre, TrySteps DEF Handled
  <2> QED BY <1>5, <2>1
<1>6. ASSUME NEW p \in 1 .. 8 PROVE Noted(o[p]) /\ Handled(o[p], o)
  BY <1>6, <1>1, <1>5, NotesNoted, NothingHandled
<1>7. o[1] = Before /\ o[9].blocks = <<>> /\ o[9].open = {}
  BY <1>1 DEF Before, Closed, BothClosed, Note
<1>8. Guarded(o)
  BY <1>1, <1>3, NotesGuarded DEF Guarded
<1> QED BY <1>3, <1>4, <1>6, <1>7, <1>8 DEF Nests, b, o

\* and one chunk after another.
LEMMA ChunkedNests == Nests(ChunkedBatchProcessing, ChunkedOutline) /\ Guarded(ChunkedOutline)
<1> DEFINE b == ChunkedBatchProcessing
           o == ChunkedOutline
<1>1. /\ o[1] = Before /\ o[2] = InWith /\ o[3] = InWith /\ o[4] = InBody /\ o[5] = InBody
      /\ o[6] = InWith /\ o[7] = InWith /\ o[8] = Before
  BY DEF ChunkedOutline
<1>2. /\ b[1].do = "with" /\ b[1].on = "reader"
      /\ b[2].do = "foreach" /\ b[2].arg = <<"first", "second">>
      /\ b[3].do = "next" /\ b[3].arg = 7
      /\ b[4].do = "get" /\ b[4].on = "reader" /\ b[4].arg = "item" /\ b[5].do = "report"
      /\ b[6].do = "goto" /\ b[6].arg = 3 /\ b[7].do = "end"
  BY DEF ChunkedBatchProcessing, With, ForEach, Next, Get, Report, Goto, End, Statement
<1>3. Len(ChunkedBatchProcessing) = 7 /\ DOMAIN o = 1 .. 8
  BY DEF ChunkedBatchProcessing, ChunkedOutline
<1> HIDE DEF b, o
<1>a. Harmless(b)
  BY <1>2, <1>3 DEF Harmless, b
<1>b. b[2].arg \in Seq(Listed)
  BY <1>2, ListsAre
<1>4. ASSUME NEW p \in 1 .. 7 PROVE Follows(b, o, p)
  <2>1. CASE p = 1
    <3>1. b[p].do = "with" /\ b[p].on = "reader" /\ o[p] = Before /\ o[p + 1] = InWith
      BY <1>1, <1>2, <2>1
    <3> QED BY <3>1, WithIs, WithSteps, WithFollows
  <2>2. CASE p = 2
    <3>1. b[p].do = "foreach" /\ o[p] = InWith /\ o[p + 1] = InWith
      BY <1>1, <1>2, <2>2
    <3>2. b[p].arg \in Seq(Listed)
      BY <1>b, <2>2
    <3> QED BY <3>1, <3>2, NotesAre, ForEachFollows
  <2>3. CASE p = 3
    <3>1. /\ b[p].do = "next" /\ b[p].arg = 7 /\ o[p] = InWith /\ o[p + 1] = InBody
          /\ 7 \in DOMAIN o /\ o[7] = InWith
      BY <1>1, <1>2, <1>3, <2>3
    <3> QED BY <3>1, NotesStay, LoopSteps DEF Follows
  <2>4. CASE p = 4
    <3>1. /\ b[p].do = "get" /\ b[p].on = "reader" /\ b[p].arg = "item" /\ o[p] = InBody
          /\ o[p + 1] = InBody
      BY <1>1, <1>2, <2>4
    <3> QED BY <3>1, NotesAre, GetFollows, <1>a DEF Expected
  <2>5. CASE p = 5
    <3>1. b[p].do = "report" /\ o[p] = InBody /\ o[p + 1] = InWith
      BY <1>1, <1>2, <2>5
    <3> QED BY <3>1, NotesAre, LoopSteps DEF Follows
  <2>6. CASE p = 6
    <3>1. /\ b[p].do = "goto" /\ b[p].arg = 3 /\ o[p] = InWith /\ o[p + 1] = InWith
          /\ 3 \in DOMAIN o /\ o[3] = InWith
      BY <1>1, <1>2, <1>3, <2>6
    <3> QED BY <3>1, NotesStay DEF Follows
  <2>7. CASE p = 7
    <3>1. b[p].do = "end" /\ o[p] = InWith /\ o[p + 1] = Before
      BY <1>1, <1>2, <2>7
    <3> QED BY <3>1, EndSteps, EndFollows
  <2> QED BY <1>4, <2>1, <2>2, <2>3, <2>4, <2>5, <2>6, <2>7
<1>6. ASSUME NEW p \in 1 .. 7 PROVE Noted(o[p]) /\ Handled(o[p], o)
  BY <1>6, <1>1, NotesNoted, NothingHandled
<1>7. o[1] = Before /\ o[8].blocks = <<>> /\ o[8].open = {}
  BY <1>1 DEF Before, Closed, BothClosed, Note
<1>8. Guarded(o)
  BY <1>1, <1>3, NotesGuarded DEF Guarded
<1> QED BY <1>3, <1>4, <1>6, <1>7, <1>8 DEF Nests, b, o

\* Every function of the four programs is what its outline says.
LEMMA ProgramsNest ==
  ASSUME NEW f \in DOMAIN Program, NEW n \in 1 .. Len(Program[f])
  PROVE  /\ Nests(Program[f][n], Outline[f][n])
         /\ f # "basic_usage" => Guarded(Outline[f][n])
<1>1. DOMAIN Program = {"basic_usage", "context_manager", "iterator_demo", "batch_processing"}
  BY DEF Program
<1>2. CASE f = "basic_usage"
  <2>1. Program[f] = <<BasicUsage>> /\ Outline[f] = <<UsageOutline>>
    BY <1>2 DEF Program, UsageMain, Outline
  <2>2. n = 1
    BY <2>1
  <2> QED BY <1>2, <2>1, <2>2, UsageNests
<1>3. CASE f = "context_manager"
  <2>1. /\ Program[f] = <<BasicContextManager, ExceptionHandling, MultipleDatabases,
                          DifferentModes>>
        /\ Outline[f] = <<ManagerOutline, HandlingOutline, MultipleOutline, ModesOutline>>
    BY <1>3 DEF Program, ContextMain, Outline
  <2>2. n \in 1 .. 4
    BY <2>1
  <2> QED BY <2>1, <2>2, ManagerNests, HandlingNests, MultipleNests, ModesNests
<1>4. CASE f = "iterator_demo"
  <2>1. /\ Program[f] = <<BasicIteration, BasicIteration, FilterNetworks, BasicIteration,
                          BasicIteration, FilterNetworks>>
        /\ Outline[f] = <<IterationOutline, IterationOutline, BreakOutline, IterationOutline,
                          IterationOutline, BreakOutline>>
    <3>1. /\ CountNetworksByCountry = BasicIteration /\ GetNetworkStatistics = BasicIteration
          /\ ExportToCsv = BasicIteration /\ SearchForNetwork = FilterNetworks
      BY DEF BasicIteration, CountNetworksByCountry, GetNetworkStatistics, ExportToCsv,
             SearchForNetwork, FilterNetworks
    <3> QED BY <1>4, <3>1 DEF Program, IteratorMain, Outline
  <2>2. n \in 1 .. 6
    BY <2>1
  <2> QED BY <2>1, <2>2, IterationNests, BreakNests
<1>5. CASE f = "batch_processing"
  <2>1. /\ Program[f] = <<BasicBatchLookup, PerformanceComparison, BasicBatchLookup,
                          BasicBatchLookup, BatchWithErrorHandling, ChunkedBatchProcessing>>
        /\ Outline[f] = <<LookupOutline, ComparisonOutline, LookupOutline, LookupOutline,
                          ErrorOutline, ChunkedOutline>>
    <3>1. ProcessLogFileSimulation = BasicBatchLookup /\ AggregateStatistics = BasicBatchLookup
      BY DEF BasicBatchLookup, ProcessLogFileSimulation, AggregateStatistics
    <3> QED BY <1>5, <3>1 DEF Program, BatchMain, Outline
  <2>2. n \in 1 .. 6
    BY <2>1
  <2> QED BY <2>1, <2>2, LookupNests, ComparisonNests, ErrorNests, ChunkedNests
<1> QED BY <1>1, <1>2, <1>3, <1>4, <1>5

\* Wherever control is, the outline of the function says what may come next.
LEMMA Placed ==
  ASSUME ProgramInv, ~Over
  PROVE  /\ raised = "none" /\ pc \in 1 .. Len(Body) /\ Len(Body) \in Nat
         /\ DOMAIN Text = 1 .. Len(Body) + 1
         /\ Len(Here.blocks) \in 0 .. 3 /\ Here.open \cup Here.closed \subseteq Name
         /\ Handled(Here, Text) /\ Follows(Body, Text, pc)
         /\ file # "basic_usage" => Guarded(Text)
         /\ BlocksInv /\ ReadersInv /\ ItemInv
<1>1. raised = "none" /\ ~(pc > Len(Body)) /\ pc \in 1 .. Len(Body) + 1
  BY DEF Over, ProgramInv, PlaceInv
<1>2. Nests(Body, Text) /\ (file # "basic_usage" => Guarded(Text))
  BY ProgramsNest DEF ProgramInv, PlaceInv, Body, Text
<1>3. pc \in 1 .. Len(Body)
  BY <1>1, <1>2 DEF Nests
<1> QED BY <1>1, <1>2, <1>3 DEF Nests, Noted, ProgramInv, Here

\* The reader of a with block is one of the names.
LEMMA UnwoundReaders ==
  ASSUME ProgramInv, NEW k \in 1 .. Len(blocks) + 1, Unwind(k)
  PROVE  /\ readers' \in [Name -> {"unbound", "open", "closed"}]
         /\ \A x \in Name : readers'[x] = IF Closes(blocks, k, x) THEN "closed" ELSE readers[x]
         /\ blocks' \in Seq(Block) /\ Len(blocks') = k - 1
         /\ \A j \in 1 .. k - 1 : blocks'[j] = blocks[j]
<1>1. blocks \in Seq(Block) /\ readers \in [Name -> {"unbound", "open", "closed"}]
  BY DEF ProgramInv, PlaceInv
<1>2. Len(blocks) \in Nat
  BY <1>1, LenProperties
<1>3. /\ blocks' = SubSeq(blocks, 1, k - 1)
      /\ readers' = [x \in Name |-> IF Closes(blocks, k, x) THEN "closed" ELSE readers[x]]
  BY DEF Unwind, Closes
<1>4. \A i \in 1 .. k - 1 : blocks[i] \in Block
  BY <1>1, <1>2, ElementOfSeq
<1>5. blocks' \in Seq(Block) /\ Len(blocks') = k - 1 /\ \A j \in 1 .. k - 1 : blocks'[j] = blocks[j]
  BY <1>2, <1>3, <1>4, SubSeqProperties
<1> QED BY <1>1, <1>3, <1>5

\* The blocks that are there close what those of the outline close.
LEMMA SameClosed ==
  ASSUME ProgramInv, BlocksInv, NEW k \in 1 .. Len(blocks) + 1, NEW x
  PROVE  Closes(blocks, k, x) <=> Closes(Here.blocks, k, x)
<1>1. Len(blocks) \in Nat
  BY LenProperties DEF ProgramInv, PlaceInv
<1> QED BY <1>1 DEF Closes, BlocksInv, Fits

\* A step inside a function keeps the invariant if it keeps its parts.
LEMMA Resumes ==
  ASSUME ProgramInv, ~Over, UNCHANGED <<file, nth, raised>>, pc' \in DOMAIN Text,
         blocks' \in Seq(Block), readers' \in [Name -> {"unbound", "open", "closed"}],
         todo' \in Seq(Listed), TodoInv', BlocksInv', ReadersInv', ItemInv'
  PROVE  ProgramInv'
BY Placed DEF ProgramInv, PlaceInv, Body

\* Blocks that are left, as a handler, the end of a block or of a loop does,
LEMMA LeavesKeeps ==
  ASSUME ProgramInv, ~Over, NEW q \in DOMAIN Text, NEW k \in 1 .. Len(blocks),
         Leaves(Here, Text[q], k), Unwind(k), pc' = q, UNCHANGED <<file, nth, raised, todo>>
  PROVE  ProgramInv'
<1>1. Len(blocks) \in Nat
  BY LenProperties DEF ProgramInv, PlaceInv
<1>2. k \in 1 .. Len(blocks) + 1
  BY <1>1
<1>3. BlocksInv /\ ReadersInv /\ ItemInv
  BY Placed
<1>4. Here' = Text[q] /\ Body' = Body
  BY DEF Here, Text, Body
<1>5. BlocksInv'
  BY <1>1, <1>2, <1>3, <1>4, UnwoundReaders DEF BlocksInv, Leaves
<1>6. ReadersInv'
  BY <1>2, <1>3, <1>4, UnwoundReaders, SameClosed DEF ReadersInv, Leaves
<1>7. ItemInv' /\ TodoInv' /\ todo' \in Seq(Listed)
  BY <1>3, <1>4 DEF ItemInv, TodoInv, Leaves, ProgramInv, PlaceInv
<1> QED BY <1>2, <1>5, <1>6, <1>7, UnwoundReaders, Resumes

\* a block that is entered,
LEMMA EntersKeeps ==
  ASSUME ProgramInv, ~Over, NEW b \in Block, NEW a, Fits(b, a),
         Enters(Here, Text[pc + 1], a), Enter(b), pc' = pc + 1,
         readers' \in [Name -> {"unbound", "open", "closed"}], ReadersInv',
         UNCHANGED <<file, nth, raised, todo>>
  PROVE  ProgramInv'
<1>1. blocks \in Seq(Block) /\ Len(blocks) \in Nat
  BY LenProperties DEF ProgramInv, PlaceInv
<1>2. BlocksInv /\ ItemInv
  BY Placed
<1>3. Here' = Text[pc + 1] /\ Body' = Body
  BY DEF Here, Text, Body
<1>4. /\ blocks' \in Seq(Block) /\ Len(blocks') = Len(blocks) + 1
      /\ \A j \in 1 .. Len(blocks) : blocks'[j] = blocks[j]
      /\ blocks'[Len(blocks) + 1] = b
  BY <1>1, AppendProperties DEF Enter
<1>5. BlocksInv'
  BY <1>1, <1>2, <1>3, <1>4 DEF BlocksInv, Enters
<1>6. ItemInv' /\ TodoInv' /\ todo' \in Seq(Listed)
  BY <1>2, <1>3 DEF ItemInv, TodoInv, Enters, ProgramInv, PlaceInv
<1>7. pc' \in DOMAIN Text
  BY Placed
<1> QED BY <1>4, <1>5, <1>6, <1>7, Resumes

\* and blocks that stay as they are.
LEMMA RemainsKeeps ==
  ASSUME ProgramInv, ~Over, NEW q \in DOMAIN Text, Remains(Here, Text[q]), pc' = q,
         readers' \in [Name -> {"unbound", "open", "closed"}], ReadersInv',
         todo' \in Seq(Listed), TodoInv', ItemInv', UNCHANGED <<file, nth, raised, blocks>>
  PROVE  ProgramInv'
<1>1. BlocksInv /\ Here' = Text[q]
  BY Placed DEF Here, Text
<1>2. BlocksInv'
  BY <1>1 DEF BlocksInv, Remains
<1> QED BY <1>2, Resumes DEF ProgramInv, PlaceInv

LEMMA StaysKeeps ==
  ASSUME ProgramInv, ~Over, NEW q \in DOMAIN Text, Stays(Here, Text[q]), pc' = q,
         UNCHANGED <<file, nth, raised, blocks, readers, todo>>
  PROVE  ProgramInv'
<1>1. ReadersInv /\ ItemInv /\ Here' = Text[q] /\ Body' = Body
  BY Placed DEF Here, Text, Body
<1>2. ReadersInv' /\ ItemInv' /\ TodoInv'
  BY <1>1 DEF ReadersInv, ItemInv, TodoInv, Stays, Neither, ProgramInv
<1> QED BY <1>2, RemainsKeeps DEF Stays, ProgramInv, PlaceInv

\* Of a few handlers one is the innermost.
LEMMA InnermostHandler ==
  ASSUME ProgramInv, ~Over, NEW e, Handlers(e) # {}
  PROVE  Max(Handlers(e)) \in Handlers(e)
<1>1. DOMAIN blocks = 1 .. Len(blocks) /\ Len(blocks) \in 0 .. 3
  BY Placed, LenProperties DEF ProgramInv, PlaceInv, BlocksInv
<1>2. Handlers(e) \subseteq 1 .. 3
  BY <1>1 DEF Handlers
<1>3. \E x \in Handlers(e) : \A y \in Handlers(e) : x >= y
  BY <1>2
<1> QED BY <1>3 DEF Max

\* An exception leads to a handler, or out of the function with every block left.
LEMMA RaiseKeeps ==
  ASSUME ProgramInv, ~Over, NEW e, Raise(e), e # "none",
         e \in {"ValueError", "UnboundLocalError"} => Handlers(e) # {},
         file = "context_manager" /\ nth = 2 /\ e # "RecordError" => Handlers(e) # {}
  PROVE  ProgramInv'
<1>1. /\ blocks \in Seq(Block) /\ Len(blocks) \in Nat /\ DOMAIN blocks = 1 .. Len(blocks)
      /\ BlocksInv /\ ReadersInv /\ ItemInv /\ raised = "none"
  BY Placed, LenProperties DEF ProgramInv, PlaceInv
<1>2. CASE Handlers(e) = {}
  <2>1. Unwind(1) /\ raised' = e /\ UNCHANGED <<file, nth, pc, todo>>
    BY <1>2 DEF Raise
  <2>2. /\ blocks' \in Seq(Block) /\ Len(blocks') = 0
        /\ readers' \in [Name -> {"unbound", "open", "closed"}]
        /\ \A x \in Name : readers'[x] = IF Closes(blocks, 1, x) THEN "closed" ELSE readers[x]
    BY <1>1, <2>1, UnwoundReaders
  <2>3. blocks' = <<>>
    BY <2>2, EmptySeq
  <2>4. ASSUME file # "basic_usage", NEW x \in Name PROVE readers'[x] # "open"
    <3>1. pc \in DOMAIN Text /\ Guarded(Text)
      BY <2>4, Placed
    <3>2. x \in Here.open => Closes(blocks, 1, x)
      BY <1>1, <3>1, SameClosed DEF Guarded, Here
    <3> QED BY <1>1, <2>2, <3>2 DEF ReadersInv
  <2>5. LeftInv'
    BY <1>2, <2>1, <2>3, <2>4 DEF LeftInv, ExpectedErrorsAreHandled
  <2>6. PlaceInv' /\ TodoInv'
    BY <2>1, <2>2 DEF ProgramInv, PlaceInv, TodoInv, Body
  <2> QED BY <2>1, <2>5, <2>6 DEF ProgramInv
<1>3. CASE Handlers(e) # {}
  <2> DEFINE k == Max(Handlers(e))
  <2>1. k \in 1 .. Len(blocks) /\ blocks[k].kind = "try"
    BY <1>1, <1>3, InnermostHandler DEF Handlers
  <2>2. Unwind(k) /\ pc' = blocks[k].to /\ UNCHANGED <<file, nth, raised, todo>>
    BY <1>3 DEF Raise
  <2>3. Here.blocks[k].kind = "try" /\ Here.blocks[k].to = blocks[k].to
        /\ k \in 1 .. Len(Here.blocks)
    BY <1>1, <2>1 DEF BlocksInv, Fits
  <2>4. blocks[k].to \in DOMAIN Text /\ Leaves(Here, Text[blocks[k].to], k)
    BY <2>3, Placed DEF Handled
  <2> QED BY <2>1, <2>2, <2>4, LeavesKeeps
<1> QED BY <1>2, <1>3

\* The errors of the database are none of those that a program expects.
LEMMA Raised ==
  /\ \A e \in OpenErrors \cup LookupErrors \cup StepErrors :
       e # "none" /\ e \notin {"ValueError", "UnboundLocalError"}
  /\ IterErrors \subseteq StepErrors
  /\ "OSError" \notin {"none", "ValueError", "UnboundLocalError"}
BY DEF OpenErrors, LookupErrors, StepErrors, IterErrors

\* In the function with exception handling, opening and the lookups are where the handlers
\* of their errors are.
LEMMA HandledThere ==
  ASSUME ProgramInv, ~Over, file = "context_manager", nth = 2
  PROVE  /\ Body[pc].do \notin {"open", "metadata", "iterate", "advance"}
         /\ Body[pc].do = "with" => \A e \in OpenErrors : Handlers(e) # {}
         /\ Body[pc].do = "get" =>
              \A e \in LookupErrors : e = "RecordError" \/ Handlers(e) # {}
<1>1. Body = ExceptionHandling /\ Text = HandlingOutline
  BY DEF Body, Text, Program, ContextMain, Outline
<1> DEFINE b == ExceptionHandling
<1>2. /\ b[1].do = "try" /\ b[2].do = "with" /\ b[3].do = "says" /\ b[4].do = "foreach"
      /\ b[5].do = "next" /\ b[6].do = "try" /\ b[7].do = "get" /\ b[8].do = "end"
      /\ b[9].do = "report" /\ b[10].do = "goto" /\ b[11].do = "end" /\ b[12].do = "end"
      /\ b[13].do = "says" /\ Len(b) = 13
  BY DEF ExceptionHandling, Try, With, Says, ForEach, Next, Get, End, Report, Goto, Statement
<1> HIDE DEF b
<1>3. Body = b
  BY <1>1 DEF b
<1>4. /\ pc \in 1 .. 13 /\ BlocksInv /\ DOMAIN blocks = 1 .. Len(blocks)
  BY <1>2, <1>3, Placed, LenProperties DEF ProgramInv, PlaceInv
<1>5. Body[pc].do \notin {"open", "metadata", "iterate", "advance"}
  BY <1>2, <1>3, <1>4
<1>6. ASSUME Body[pc].do = "with", NEW e \in OpenErrors PROVE Handlers(e) # {}
  <2>1. pc = 2
    BY <1>2, <1>3, <1>4, <1>6
  <2>2. Here = InTry
    BY <1>1, <2>1 DEF Here, HandlingOutline
  <2>3. Len(blocks) = 1 /\ blocks[1].kind = "try" /\ e \in blocks[1].on
    BY <1>4, <1>6, <2>2, NotesAre, BlocksAre DEF BlocksInv, Fits, OpenErrors
  <2> QED BY <1>4, <2>3 DEF Handlers
<1>7. ASSUME Body[pc].do = "get", NEW e \in LookupErrors, e # "RecordError"
      PROVE  Handlers(e) # {}
  <2>1. pc = 7
    BY <1>2, <1>3, <1>4, <1>7
  <2>2. Here = InInner
    BY <1>1, <2>1 DEF Here, HandlingOutline
  <2>3. /\ Len(blocks) = 3 /\ blocks[1].kind = "try" /\ blocks[3].kind = "try"
        /\ blocks[1].on = {"OSError", "InvalidDatabaseError"} /\ blocks[3].on = ValueErrors
    BY <1>4, <2>2, NotesAre, BlocksAre DEF BlocksInv, Fits
  <2>4. e \in blocks[1].on \/ e \in blocks[3].on
    BY <1>7, <2>3 DEF LookupErrors, ValueErrors
  <2> QED BY <1>4, <2>3, <2>4 DEF Handlers
<1> QED BY <1>5, <1>6, <1>7

\* Each statement keeps the invariant.
LEMMA OpenReaderStep == ProgramInv /\ OpenReader => ProgramInv'
<1> SUFFICES ASSUME ProgramInv, OpenReader PROVE ProgramInv'
  OBVIOUS
<1>1. ~Over /\ Body[pc].do \in {"open", "with"}
  BY DEF OpenReader, At
<1>2. CASE \E e \in OpenErrors : Raise(e)
  <2>1. PICK e \in OpenErrors : Raise(e)
    BY <1>2
  <2>2. file = "context_manager" /\ nth = 2 => Handlers(e) # {}
    BY <1>1, HandledThere
  <2> QED BY <1>1, <2>1, <2>2, Raised, RaiseKeeps
<1>3. CASE /\ readers' = [readers EXCEPT ![On] = "open"]
           /\ IF At("with") THEN Enter([kind |-> "with", on |-> On, to |-> 0])
                            ELSE UNCHANGED blocks
           /\ Continue(pc + 1)
           /\ UNCHANGED <<todo, reported>>
  <2> DEFINE m == Text[pc + 1]
  <2>1. /\ On \in Name /\ Opens(Here, m, On) /\ (m.item => Here.item)
        /\ IF At("with") THEN Enters(Here, m, WithBlock(On)) ELSE Remains(Here, m)
    <3>1. Follows(Body, Text, pc)
      BY <1>1, Placed
    <3>2. CASE Body[pc].do = "with"
      BY <1>1, <3>1, <3>2 DEF Follows, On, Here, Enters, At
    <3>3. CASE Body[pc].do = "open"
      BY <1>1, <3>1, <3>3 DEF Follows, On, Here, At
    <3> QED BY <1>1, <3>2, <3>3
  <2>2. /\ pc' = pc + 1 /\ UNCHANGED <<file, nth, raised, todo>>
        /\ readers' \in [Name -> {"unbound", "open", "closed"}]
        /\ \A x \in Name : readers'[x] = IF x = On THEN "open" ELSE readers[x]
    BY <1>3, <2>1 DEF Continue, ProgramInv, PlaceInv
  <2>3. Here' = m /\ Body' = Body
    BY <2>2 DEF Here, Text, Body
  <2>4. ReadersInv'
    BY <1>1, <2>1, <2>2, <2>3, Placed DEF ReadersInv, Opens
  <2>5. CASE At("with")
    <3>1. WithBlock(On) \in Block /\ Fits(WithBlock(On), WithBlock(On)) /\ Enter(WithBlock(On))
      BY <1>3, <2>1, <2>5 DEF WithBlock, Block, Fits
    <3> QED BY <1>1, <2>1, <2>2, <2>4, <2>5, <3>1, EntersKeeps
  <2>6. CASE ~At("with")
    <3>1. ItemInv' /\ TodoInv' /\ todo' \in Seq(Listed)
      BY <1>1, <2>1, <2>2, <2>3, Placed DEF ItemInv, TodoInv, ProgramInv, PlaceInv
    <3>2. pc + 1 \in DOMAIN Text
      BY <1>1, Placed
    <3> QED BY <1>1, <1>3, <2>1, <2>2, <2>4, <2>6, <3>1, <3>2, RemainsKeeps
  <2> QED BY <2>5, <2>6
<1> QED BY <1>2, <1>3 DEF OpenReader

LEMMA EnterTryStep == ProgramInv /\ EnterTry => ProgramInv'
<1> SUFFICES ASSUME ProgramInv, EnterTry PROVE ProgramInv'
  OBVIOUS
<1> DEFINE m == Text[pc + 1]
<1>1. ~Over /\ Body[pc].do = "try"
  BY DEF EnterTry, At
<1>2. /\ On \subseteq Errors /\ Arg \in Nat /\ Enters(Here, m, TryBlock(On, Arg))
      /\ Neither(Here, m)
  BY <1>1, Placed DEF Follows, On, Arg, Here
<1>3. pc' = pc + 1 /\ UNCHANGED <<file, nth, raised, readers, todo>> /\ Here' = m
  BY DEF EnterTry, Continue, Here, Text
<1>4. /\ TryBlock(On, Arg) \in Block /\ Fits(TryBlock(On, Arg), TryBlock(On, Arg))
      /\ Enter(TryBlock(On, Arg))
  BY <1>2 DEF TryBlock, Block, Fits, EnterTry
<1>5. ReadersInv' /\ readers' \in [Name -> {"unbound", "open", "closed"}]
  BY <1>1, <1>2, <1>3, Placed DEF ReadersInv, Neither, ProgramInv, PlaceInv
<1> QED BY <1>1, <1>2, <1>3, <1>4, <1>5, EntersKeeps

LEMMA EndBlockStep == ProgramInv /\ EndBlock => ProgramInv'
<1> SUFFICES ASSUME ProgramInv, EndBlock PROVE ProgramInv'
  OBVIOUS
<1>1. ~Over /\ Body[pc].do = "end"
  BY DEF EndBlock, At
<1>2. /\ Len(Here.blocks) > 0 /\ Leaves(Here, Text[pc + 1], Len(Here.blocks))
      /\ pc + 1 \in DOMAIN Text /\ Len(blocks) = Len(Here.blocks) /\ Len(Here.blocks) \in 0 .. 3
  BY <1>1, Placed DEF Follows, Here, BlocksInv
<1>3. Unwind(Len(blocks)) /\ pc' = pc + 1 /\ UNCHANGED <<file, nth, raised, todo>>
  BY DEF EndBlock, Continue
<1> QED BY <1>1, <1>2, <1>3, LeavesKeeps

LEMMA LookupStep == ProgramInv /\ Lookup => ProgramInv'
<1> SUFFICES ASSUME ProgramInv, Lookup PROVE ProgramInv'
  OBVIOUS
<1>1. ~Over /\ Body[pc].do = "get"
  BY DEF Lookup, At
<1>2. Expected(Body, Body[pc], Here) /\ Stays(Here, Text[pc + 1]) /\ pc + 1 \in DOMAIN Text
  BY <1>1, Placed DEF Follows, Here
<1>3. BlocksInv /\ ReadersInv /\ ItemInv
  BY <1>1, Placed
<1>4. On \in Name /\ readers[On] # "unbound"
  <2>1. On \in Here.open \cup Here.closed
    BY <1>2 DEF Expected, On
  <2>2. On \in Name
    BY <1>1, <2>1, Placed
  <2> QED BY <1>3, <2>1, <2>2 DEF ReadersInv
<1>5. CASE readers[On] = "closed" \/ Invalid
  <2>1. Raise("ValueError")
    BY <1>4, <1>5 DEF Lookup
  <2>2. Catches(Here)
    <3> SUFFICES ASSUME ~Catches(Here) PROVE FALSE
      OBVIOUS
    <3>1. On \in Here.open /\ Arg # "invalid-ip" /\ (Arg = "item" => Harmless(Body) /\ Here.item)
      BY <1>2 DEF Expected, On, Arg
    <3>2. Arg = "item" /\ Head(todo) = "invalid-ip"
      BY <1>3, <1>4, <1>5, <3>1 DEF ReadersInv, Invalid
    <3>3. todo # <<>> /\ todo \in Seq(Listed) /\ TodoInv
      BY <1>3, <3>1, <3>2 DEF ItemInv, ProgramInv, PlaceInv
    <3>4. Len(todo) \in Nat \ {0} /\ Head(todo) = todo[1]
      BY <3>3, EmptySeq
    <3> QED BY <3>1, <3>2, <3>3, <3>4 DEF TodoInv
  <2>3. Handlers("ValueError") # {}
    <3>1. DOMAIN blocks = 1 .. Len(blocks)
      BY LenProperties DEF ProgramInv, PlaceInv
    <3> QED BY <1>3, <2>2, <3>1 DEF Catches, Handlers, BlocksInv, Fits
  <2> QED BY <1>1, <2>1, <2>3, RaiseKeeps
<1>6. CASE ~(readers[On] = "closed" \/ Invalid)
  <2>1. \/ \E e \in LookupErrors : Raise(e)
        \/ Continue(pc + 1) /\ UNCHANGED <<blocks, readers, todo, reported>>
    BY <1>4, <1>6 DEF Lookup
  <2>2. CASE \E e \in LookupErrors : Raise(e)
    <3>1. PICK e \in LookupErrors : Raise(e)
      BY <2>2
    <3>2. file = "context_manager" /\ nth = 2 /\ e # "RecordError" => Handlers(e) # {}
      BY <1>1, HandledThere
    <3> QED BY <1>1, <3>1, <3>2, Raised, RaiseKeeps
  <2>3. CASE Continue(pc + 1) /\ UNCHANGED <<blocks, readers, todo, reported>>
    BY <1>1, <1>2, <2>3, StaysKeeps DEF Continue
  <2> QED BY <2>1, <2>2, <2>3
<1> QED BY <1>5, <1>6

LEMMA ReadMetadataStep == ProgramInv /\ ReadMetadata => ProgramInv'
<1> SUFFICES ASSUME ProgramInv, ReadMetadata PROVE ProgramInv'
  OBVIOUS
<1>1. ~Over /\ Body[pc].do = "metadata"
  BY DEF ReadMetadata, At
<1>2. Stays(Here, Text[pc + 1]) /\ pc + 1 \in DOMAIN Text
  BY <1>1, Placed DEF Follows, Here
<1>3. CASE Raise("OSError")
  BY <1>1, <1>3, Raised, HandledThere, RaiseKeeps
<1>4. CASE Continue(pc + 1) /\ UNCHANGED <<blocks, readers, todo, reported>>
  BY <1>1, <1>2, <1>4, StaysKeeps DEF Continue
<1> QED BY <1>3, <1>4 DEF ReadMetadata

LEMMA CloseReaderStep == ProgramInv /\ CloseReader => ProgramInv'
<1> SUFFICES ASSUME ProgramInv, CloseReader PROVE ProgramInv'
  OBVIOUS
<1> DEFINE m == Text[pc + 1]
<1>1. ~Over /\ Body[pc].do = "close"
  BY DEF CloseReader, At
<1>2. On \in Name /\ Remains(Here, m) /\ Shuts(Here, m, On) /\ (m.item => Here.item)
  BY <1>1, Placed DEF Follows, Here, On
<1>3. /\ pc' = pc + 1 /\ UNCHANGED <<file, nth, raised, blocks, todo>>
      /\ readers' \in [Name -> {"unbound", "open", "closed"}]
      /\ \A x \in Name : readers'[x] = IF x = On THEN "closed" ELSE readers[x]
  BY <1>2 DEF CloseReader, Continue, ProgramInv, PlaceInv
<1>4. Here' = m /\ Body' = Body
  BY <1>3 DEF Here, Text, Body
<1>5. ReadersInv'
  BY <1>1, <1>2, <1>3, <1>4, Placed DEF ReadersInv, Shuts
<1>6. ItemInv' /\ TodoInv' /\ todo' \in Seq(Listed) /\ pc + 1 \in DOMAIN Text
  BY <1>1, <1>2, <1>3, <1>4, Placed DEF ItemInv, TodoInv, ProgramInv, PlaceInv
<1> QED BY <1>1, <1>2, <1>3, <1>5, <1>6, RemainsKeeps

LEMMA SayStep == ProgramInv /\ Say => ProgramInv'
<1> SUFFICES ASSUME ProgramInv, Say PROVE ProgramInv'
  OBVIOUS
<1>1. ~Over /\ Body[pc].do = "says"
  BY DEF Say, At
<1>2. /\ On \subseteq Name /\ On \subseteq IF Arg THEN Here.closed ELSE Here.open
      /\ Stays(Here, Text[pc + 1]) /\ pc + 1 \in DOMAIN Text
  BY <1>1, Placed DEF Follows, Here, On, Arg
<1>3. \A x \in On : readers[x] # "unbound"
  BY <1>1, <1>2, Placed DEF ReadersInv
<1>4. Continue(pc + 1) /\ UNCHANGED <<blocks, readers, todo, reported>>
  BY <1>3 DEF Say
<1> QED BY <1>1, <1>2, <1>4, StaysKeeps DEF Continue

LEMMA JumpStep == ProgramInv /\ Jump => ProgramInv'
<1> SUFFICES ASSUME ProgramInv, Jump PROVE ProgramInv'
  OBVIOUS
<1>1. ~Over /\ Body[pc].do = "goto"
  BY DEF Jump, At
<1>2. Arg \in DOMAIN Text /\ Stays(Here, Text[Arg])
  BY <1>1, Placed DEF Follows, Here, Arg
<1> QED BY <1>1, <1>2, StaysKeeps DEF Jump, Continue

LEMMA StartLoopStep == ProgramInv /\ StartLoop => ProgramInv'
<1> SUFFICES ASSUME ProgramInv, StartLoop PROVE ProgramInv'
  OBVIOUS
<1> DEFINE m == Text[pc + 1]
<1>1. ~Over /\ Body[pc].do = "foreach"
  BY DEF StartLoop, At
<1>2. Arg \in Seq(Listed) /\ Stays(Here, m) /\ ~m.item /\ pc + 1 \in DOMAIN Text
  BY <1>1, Placed DEF Follows, Here, Arg
<1>3. /\ todo' = Arg /\ pc' = pc + 1
      /\ UNCHANGED <<file, nth, raised, blocks, readers>> /\ Here' = m /\ Body' = Body
  BY DEF StartLoop, Continue, Here, Text, Body
<1>4. ReadersInv' /\ ItemInv'
  BY <1>1, <1>2, <1>3, Placed DEF ReadersInv, ItemInv, Stays, Neither
<1>5. TodoInv'
  BY <1>1, <1>3, Placed DEF TodoInv, Harmless, Arg
<1> QED BY <1>1, <1>2, <1>3, <1>4, <1>5, RemainsKeeps DEF Stays, ProgramInv, PlaceInv

LEMMA LoopHeadStep == ProgramInv /\ LoopHead => ProgramInv'
<1> SUFFICES ASSUME ProgramInv, LoopHead PROVE ProgramInv'
  OBVIOUS
<1> DEFINE m == Text[pc + 1]
<1>1. ~Over /\ Body[pc].do = "next" /\ UNCHANGED <<file, nth, raised, blocks, readers, todo>>
  BY DEF LoopHead, At, Continue
<1>2. /\ Arg \in DOMAIN Text /\ Stays(Here, Text[Arg]) /\ pc + 1 \in DOMAIN Text
      /\ Remains(Here, m) /\ Neither(Here, m)
  BY <1>1, Placed DEF Follows, Here, Arg
<1>3. CASE todo = <<>>
  BY <1>1, <1>2, <1>3, StaysKeeps DEF LoopHead, Continue
<1>4. CASE todo # <<>>
  <2>1. pc' = pc + 1 /\ Here' = m /\ Body' = Body
    BY <1>1, <1>4 DEF LoopHead, Continue, Here, Text, Body
  <2>2. ReadersInv' /\ ItemInv' /\ TodoInv'
    BY <1>1, <1>2, <1>4, <2>1, Placed DEF ReadersInv, ItemInv, TodoInv, Neither, ProgramInv
  <2> QED BY <1>1, <1>2, <2>1, <2>2, RemainsKeeps DEF ProgramInv, PlaceInv
<1> QED BY <1>3, <1>4

\* What is taken from a list leaves good addresses good.
LEMMA TailGood ==
  ASSUME NEW s \in Seq(Listed), s # <<>>
  PROVE  /\ Tail(s) \in Seq(Listed)
         /\ (\A i \in 1 .. Len(s) : s[i] # "invalid-ip")
              => \A i \in 1 .. Len(Tail(s)) : Tail(s)[i] # "invalid-ip"
<1>1. Len(s) \in Nat \ {0}
  BY EmptySeq
<1>2. Len(Tail(s)) = Len(s) - 1 /\ Tail(s) \in Seq(Listed)
  BY HeadTailProperties
<1>3. \A i \in 1 .. Len(Tail(s)) : Tail(s)[i] = s[i + 1]
  BY HeadTailProperties
<1>4. ASSUME \A i \in 1 .. Len(s) : s[i] # "invalid-ip", NEW i \in 1 .. Len(Tail(s))
      PROVE  Tail(s)[i] # "invalid-ip"
  <2>1. i + 1 \in 1 .. Len(s)
    BY <1>1, <1>2
  <2> QED BY <1>3, <1>4, <2>1
<1> QED BY <1>2, <1>4

LEMMA LoopEndStep == ProgramInv /\ LoopEnd => ProgramInv'
<1> SUFFICES ASSUME ProgramInv, LoopEnd PROVE ProgramInv'
  OBVIOUS
<1> DEFINE m == Text[pc + 1]
<1>1. ~Over /\ Body[pc].do = "report"
  BY DEF LoopEnd, At
<1>2. Here.item /\ ~m.item /\ Stays(Here, m) /\ pc + 1 \in DOMAIN Text
  BY <1>1, Placed DEF Follows, Here
<1>3. /\ todo' = Tail(todo) /\ pc' = pc + 1
      /\ UNCHANGED <<file, nth, raised, blocks, readers>> /\ Here' = m /\ Body' = Body
  BY DEF LoopEnd, Continue, Here, Text, Body
<1>4. todo \in Seq(Listed) /\ todo # <<>> /\ TodoInv
  BY <1>1, <1>2, Placed DEF ItemInv, ProgramInv, PlaceInv
<1>5. todo' \in Seq(Listed) /\ TodoInv'
  BY <1>3, <1>4, TailGood DEF TodoInv
<1>6. ReadersInv' /\ ItemInv'
  BY <1>1, <1>2, <1>3, Placed DEF ReadersInv, ItemInv, Stays, Neither
<1> QED BY <1>1, <1>2, <1>3, <1>5, <1>6, RemainsKeeps DEF Stays, ProgramInv, PlaceInv

LEMMA StartIterationStep == ProgramInv /\ StartIteration => ProgramInv'
<1> SUFFICES ASSUME ProgramInv, StartIteration PROVE ProgramInv'
  OBVIOUS
<1> DEFINE m == Text[pc + 1]
           it == [kind |-> "for", on |-> On, to |-> Networks]
<1>1. ~Over /\ Body[pc].do = "iterate"
  BY DEF StartIteration, At
<1>2. On \in Here.open /\ On \in Name /\ Enters(Here, m, ForBlock(On)) /\ Neither(Here, m)
  BY <1>1, Placed DEF Follows, Here, On
<1>3. readers[On] = "open"
  BY <1>1, <1>2, Placed DEF ReadersInv
<1>4. CASE \E e \in IterErrors : Raise(e)
  BY <1>1, <1>4, Raised, HandledThere, RaiseKeeps
<1>5. CASE Enter(it) /\ Continue(pc + 1) /\ UNCHANGED <<readers, todo, reported>>
  <2>1. /\ Enter(it) /\ pc' = pc + 1 /\ UNCHANGED <<file, nth, raised, readers, todo>>
        /\ Here' = m
    BY <1>5 DEF Continue, Here, Text
  <2>2. it \in Block /\ Fits(it, ForBlock(On))
    BY <1>2, NetworksAssumption DEF ForBlock, Block, Fits
  <2>3. ReadersInv' /\ readers' \in [Name -> {"unbound", "open", "closed"}]
    BY <1>1, <1>2, <2>1, Placed DEF ReadersInv, Neither, ProgramInv, PlaceInv
  <2> QED BY <1>1, <1>2, <2>1, <2>2, <2>3, EntersKeeps
<1> QED BY <1>3, <1>4, <1>5 DEF StartIteration

LEMMA NextNetworkStep == ProgramInv /\ NextNetwork => ProgramInv'
<1> SUFFICES ASSUME ProgramInv, NextNetwork PROVE ProgramInv'
  OBVIOUS
<1> DEFINE m == Text[pc + 1]
           top == Len(blocks)
<1>1. ~Over /\ Body[pc].do = "advance"
  BY DEF NextNetwork, At
<1>2. /\ BlocksInv /\ ReadersInv /\ ItemInv /\ blocks \in Seq(Block) /\ top \in Nat
      /\ Len(Here.blocks) = top
  BY <1>1, Placed, LenProperties DEF ProgramInv, PlaceInv, BlocksInv
<1>3. /\ Arg \in DOMAIN Text /\ top > 0 /\ Here.blocks[top].kind = "for"
      /\ Stays(Here, m) /\ Leaves(Here, Text[Arg], top) /\ pc + 1 \in DOMAIN Text
  BY <1>1, <1>2, Placed DEF Follows, Here, Arg
<1>4. CASE /\ blocks[top].to > 0
           /\ blocks' = [blocks EXCEPT ![top].to = @ - 1]
           /\ Continue(pc + 1)
           /\ UNCHANGED <<readers, todo, reported>>
  <2>1. top \in 1 .. top /\ blocks[top].kind = "for" /\ blocks[top] \in Block
    BY <1>2, <1>3, ElementOfSeq DEF BlocksInv, Fits
  <2> DEFINE b == [blocks[top] EXCEPT !.to = @ - 1]
  <2>2. b \in Block /\ b.kind = blocks[top].kind /\ b.on = blocks[top].on
    BY <1>4, <2>1 DEF Block
  <2>3. blocks' = [blocks EXCEPT ![top] = b]
    BY <1>4
  <2>4. /\ blocks' \in Seq(Block) /\ Len(blocks') = top /\ blocks'[top] = b
        /\ \A j \in 1 .. top : j # top => blocks'[j] = blocks[j]
    BY <1>2, <2>1, <2>2, <2>3, ExceptSeq
  <2>5. /\ pc' = pc + 1 /\ UNCHANGED <<file, nth, raised, readers, todo>>
        /\ Here' = m /\ Body' = Body
    BY <1>4 DEF Continue, Here, Text, Body
  <2>6. \A k \in 1 .. top : Fits(blocks'[k], Here.blocks[k])
    BY <1>2, <2>1, <2>2, <2>4 DEF BlocksInv, Fits
  <2>7. BlocksInv'
    BY <1>2, <1>3, <2>4, <2>5, <2>6 DEF BlocksInv, Stays, Remains
  <2>8. ReadersInv' /\ ItemInv' /\ TodoInv'
    BY <1>2, <1>3, <2>5 DEF ReadersInv, ItemInv, TodoInv, Stays, Neither, ProgramInv
  <2> QED BY <1>1, <1>3, <2>4, <2>5, <2>7, <2>8, Resumes DEF ProgramInv, PlaceInv
<1>5. CASE Unwind(top) /\ Continue(Arg) /\ UNCHANGED <<todo, reported>>
  BY <1>1, <1>2, <1>3, <1>5, LeavesKeeps DEF Continue
<1>6. CASE \E e \in StepErrors : Raise(e)
  BY <1>1, <1>6, Raised, HandledThere, RaiseKeeps
<1> QED BY <1>4, <1>5, <1>6 DEF NextNetwork

LEMMA BreakStep == ProgramInv /\ Break => ProgramInv'
<1> SUFFICES ASSUME ProgramInv, Break PROVE ProgramInv'
  OBVIOUS
<1> DEFINE top == Len(blocks)
<1>1. ~Over /\ Body[pc].do = "break"
  BY DEF Break, At
<1>2. Len(Here.blocks) = top /\ top \in Nat
  BY <1>1, Placed, LenProperties DEF ProgramInv, PlaceInv, BlocksInv
<1>3. /\ Arg \in DOMAIN Text /\ top > 0 /\ pc + 1 \in DOMAIN Text
      /\ Stays(Here, Text[pc + 1]) /\ Leaves(Here, Text[Arg], top)
  BY <1>1, <1>2, Placed DEF Follows, Here, Arg
<1>4. CASE Unwind(top) /\ Continue(Arg) /\ UNCHANGED <<todo, reported>>
  BY <1>1, <1>2, <1>3, <1>4, LeavesKeeps DEF Continue
<1>5. CASE Continue(pc + 1) /\ UNCHANGED <<blocks, readers, todo, reported>>
  BY <1>1, <1>3, <1>5, StaysKeeps DEF Continue
<1> QED BY <1>4, <1>5 DEF Break

\* A function that is over by itself has no block left and no reader open,
LEMMA LeftTidy ==
  ASSUME ProgramInv, Over, raised = "none"
  PROVE  blocks = <<>> /\ \A x \in Name : readers[x] # "open"
<1>1. /\ file \in DOMAIN Program /\ nth \in 1 .. Len(Program[file])
      /\ pc \in 1 .. Len(Body) + 1 /\ pc > Len(Body) /\ blocks \in Seq(Block)
      /\ BlocksInv /\ ReadersInv
  BY DEF ProgramInv, PlaceInv, Over
<1>2. Nests(Body, Text)
  BY <1>1, ProgramsNest DEF Body, Text
<1>3. pc = Len(Body) + 1
  BY <1>1, <1>2 DEF Nests
<1>4. Here.blocks = <<>> /\ Here.open = {}
  BY <1>2, <1>3 DEF Nests, Here
<1>5. Len(blocks) = 0
  BY <1>1, <1>4 DEF BlocksInv
<1> QED BY <1>1, <1>4, <1>5, EmptySeq DEF ReadersInv

\* and every function starts with neither.
LEMMA StartsTidy ==
  ASSUME NEW f \in DOMAIN Program, NEW n \in 1 .. Len(Program[f])
  PROVE  /\ Len(Program[f][n]) \in Nat /\ Outline[f][n][1] = Before
         /\ Len(Before.blocks) = 0 /\ Before.open = {} /\ Before.closed = {} /\ ~Before.item
<1>1. Nests(Program[f][n], Outline[f][n])
  BY ProgramsNest
<1>2. Len(Before.blocks) = 0 /\ Before.open = {} /\ Before.closed = {} /\ Before.item = FALSE
  BY NotesAre
<1> QED BY <1>1, <1>2 DEF Nests

LEMMA LeaveStep == ProgramInv /\ Leave => ProgramInv'
<1> SUFFICES ASSUME ProgramInv, Leave PROVE ProgramInv'
  OBVIOUS
<1>1. /\ file \in DOMAIN Program /\ nth \in 1 .. Len(Program[file])
      /\ nth < Len(Program[file]) /\ Over /\ raised = "none"
  BY DEF ProgramInv, PlaceInv, Leave
<1>2. /\ file' = file /\ nth' = nth + 1 /\ pc' = 1 /\ readers' = Fresh /\ todo' = <<>>
      /\ blocks' = blocks /\ raised' = "none" /\ blocks = <<>>
  BY <1>1, LeftTidy DEF Leave
<1>3. nth' \in 1 .. Len(Program[file])
  BY <1>1, <1>2
<1>4. Len(Body') \in Nat /\ Here' = Before
  BY <1>1, <1>2, <1>3, StartsTidy DEF Body, Here, Text
<1>5. PlaceInv' /\ TodoInv'
  BY <1>1, <1>2, <1>3, <1>4 DEF PlaceInv, TodoInv, Fresh, Name
<1>6. BlocksInv' /\ ReadersInv' /\ ItemInv'
  BY <1>1, <1>2, <1>4, StartsTidy DEF BlocksInv, ReadersInv, ItemInv, Fresh
<1> QED BY <1>2, <1>5, <1>6 DEF ProgramInv

LEMMA ProgramStarts == Init => ProgramInv
<1> SUFFICES ASSUME Init PROVE ProgramInv
  OBVIOUS
<1>1. /\ file \in DOMAIN Program /\ nth = 1 /\ pc = 1 /\ readers = Fresh /\ todo = <<>>
      /\ blocks = <<>> /\ raised = "none"
  BY DEF Init
<1>2. nth \in 1 .. Len(Program[file])
  BY <1>1 DEF Program, UsageMain, ContextMain, IteratorMain, BatchMain
<1>3. Len(Body) \in Nat /\ Here = Before
  BY <1>1, <1>2, StartsTidy DEF Body, Here, Text
<1>4. PlaceInv /\ TodoInv
  BY <1>1, <1>2, <1>3 DEF PlaceInv, TodoInv, Fresh, Name
<1>5. BlocksInv /\ ReadersInv /\ ItemInv
  BY <1>1, <1>2, <1>3, StartsTidy DEF BlocksInv, ReadersInv, ItemInv, Fresh
<1> QED BY <1>1, <1>4, <1>5 DEF ProgramInv

LEMMA ProgramKept == Spec => []ProgramInv
<1>1. ProgramInv /\ [Step]_vars => ProgramInv'
  <2>1. CASE UNCHANGED vars
    BY <2>1 DEF vars, ProgramInv, PlaceInv, TodoInv, BlocksInv, ReadersInv, ItemInv, LeftInv,
                ExpectedErrorsAreHandled, Body, Here, Text
  <2> QED BY <2>1, OpenReaderStep, EnterTryStep, EndBlockStep, LookupStep, ReadMetadataStep,
             CloseReaderStep, SayStep, JumpStep, StartLoopStep, LoopHeadStep, LoopEndStep,
             StartIterationStep, NextNetworkStep, BreakStep, LeaveStep DEF Step
<1> QED BY <1>1, ProgramStarts, PTL DEF Spec

\* Wherever a lookup may be given a bad address or a closed reader, or a name may not be
\* bound, a handler is there or it cannot happen; and in the function with exception handling
\* whatever opening or a lookup raises meets its handler.
THEOREM OwnErrorsHandled == Spec => []ExpectedErrorsAreHandled
<1>1. ProgramInv => ExpectedErrorsAreHandled
  BY DEF ProgramInv, LeftInv, ExpectedErrorsAreHandled
<1> QED BY <1>1, ProgramKept, PTL

\* However a function ends, every block has been left: no reader is open then and no
\* iterator there, but for basic_usage when one of its calls raises.
THEOREM NothingStaysMapped == Spec => []NothingLeftMapped
<1>1. ProgramInv => NothingLeftMapped
  <2> SUFFICES ASSUME ProgramInv, Over, ~(file = "basic_usage" /\ raised # "none")
               PROVE  \A x \in Name : ~Mapped(x)
    BY DEF NothingLeftMapped
  <2>1. blocks = <<>> /\ \A x \in Name : readers[x] # "open"
    BY LeftTidy DEF ProgramInv, LeftInv
  <2> QED BY <2>1 DEF Mapped
<1> QED BY <1>1, ProgramKept, PTL

\* The loop over the addresses in the function with exception handling.
LEMMA HandlingLoop ==
  ASSUME file = "context_manager", nth = 2
  PROVE  /\ Text = HandlingOutline /\ Len(Body) = 13
         /\ Body[4].do = "foreach" /\ Body[4].arg = FourAddresses
         /\ Body[5].do = "next" /\ Body[5].arg = 11
         /\ Body[9].do = "report" /\ Body[10].do = "goto" /\ Body[10].arg = 5
         /\ \A p \in {1, 2, 3, 6, 7, 8, 11, 12, 13} :
              Body[p].do \in {"try", "with", "says", "get", "end"}
         /\ \A p \in 1 .. 13 : Body[p].do = "says" => p = 13 \/ (p = 3 /\ Body[p].arg = FALSE)
<1>1. Body = ExceptionHandling /\ Text = HandlingOutline
  BY DEF Body, Text, Program, ContextMain, Outline
<1> DEFINE b == ExceptionHandling
<1>2. /\ b[1].do = "try" /\ b[2].do = "with" /\ b[3].do = "says" /\ b[3].arg = FALSE
      /\ b[4].do = "foreach" /\ b[4].arg = FourAddresses /\ b[5].do = "next" /\ b[5].arg = 11
      /\ b[6].do = "try" /\ b[7].do = "get" /\ b[8].do = "end" /\ b[9].do = "report"
      /\ b[10].do = "goto" /\ b[10].arg = 5 /\ b[11].do = "end" /\ b[12].do = "end"
      /\ b[13].do = "says" /\ Len(b) = 13
  BY DEF ExceptionHandling, Try, With, Says, ForEach, Next, Get, End, Report, Goto, Statement
<1> HIDE DEF b
<1>3. \A p \in {1, 2, 3, 6, 7, 8, 11, 12, 13} : b[p].do \in {"try", "with", "says", "get", "end"}
  BY <1>2
<1>4. \A p \in 1 .. 13 : b[p].do = "says" => p = 13 \/ (p = 3 /\ b[p].arg = FALSE)
  BY <1>2
<1>5. Body = b
  BY <1>1 DEF b
<1> QED BY <1>1, <1>2, <1>3, <1>4, <1>5

\* Its handlers are behind the addresses, or at the end of the loop's body.
LEMMA HandlingHandlers ==
  ASSUME NEW p \in 1 .. 13, NEW k \in 1 .. Len(HandlingOutline[p].blocks),
         HandlingOutline[p].blocks[k].kind = "try"
  PROVE  \/ HandlingOutline[p].blocks[k].to = 14
         \/ HandlingOutline[p].blocks[k].to = 9 /\ p \in 7 .. 8
<1> DEFINE n == HandlingOutline[p]
<1>1. \/ p \in {7, 8} /\ n = InInner
      \/ n \in {Before, InTry, InBoth, InLoop, ClosedInTry, Closed}
  BY DEF HandlingOutline
<1>2. k \in 1 .. Len(n.blocks) /\ n.blocks[k].kind = "try"
  OBVIOUS
<1> HIDE DEF n
<1>3. CASE p \in {7, 8} /\ n = InInner
  <2>1. /\ Len(n.blocks) = 3 /\ n.blocks[1] = TryOpening /\ n.blocks[2] = WithReader
        /\ n.blocks[3] = TryItem
    BY <1>3, NotesAre
  <2>2. n.blocks[k].to = 14 \/ n.blocks[k].to = 9
    BY <1>2, <2>1, BlocksAre
  <2> QED BY <1>3, <2>2 DEF n
<1>4. CASE n \in {InTry, ClosedInTry}
  <2>1. Len(n.blocks) = 1 /\ n.blocks[1] = TryOpening
    BY <1>4, NotesAre
  <2>2. n.blocks[k].to = 14
    BY <1>2, <2>1, BlocksAre
  <2> QED BY <2>2 DEF n
<1>5. CASE n \in {InBoth, InLoop}
  <2>1. Len(n.blocks) = 2 /\ n.blocks[1] = TryOpening /\ n.blocks[2] = WithReader
    BY <1>5, NotesAre
  <2>2. n.blocks[k].to = 14
    BY <1>2, <2>1, BlocksAre
  <2> QED BY <2>2 DEF n
<1>6. CASE n \in {Before, Closed}
  <2>1. Len(n.blocks) = 0
    BY <1>6, NotesAre
  <2> QED BY <1>2, <2>1
<1> QED BY <1>1, <1>3, <1>4, <1>5, <1>6

\* An exception that is caught leads to the handler of a block that the outline names.
LEMMA RaisedTo ==
  ASSUME ProgramInv, ~Over, NEW e, e # "none", Raise(e), raised' = "none"
  PROVE  /\ UNCHANGED <<todo, reported>>
         /\ \E k \in 1 .. Len(Here.blocks) :
              Here.blocks[k].kind = "try" /\ pc' = Here.blocks[k].to
<1>1. Handlers(e) # {}
  BY DEF Raise
<1>2. UNCHANGED <<todo, reported>> /\ pc' = blocks[Max(Handlers(e))].to
  BY <1>1 DEF Raise
<1>3. Max(Handlers(e)) \in Handlers(e) /\ BlocksInv /\ DOMAIN blocks = 1 .. Len(blocks)
  BY <1>1, InnermostHandler, Placed, LenProperties DEF ProgramInv, PlaceInv
<1> QED BY <1>2, <1>3 DEF Handlers, BlocksInv, Fits

\* Any other statement that is no part of a loop goes on and leaves the lists alone.
LEMMA GoesOn ==
  ASSUME ~Over, Step, Body[pc].do \in {"try", "with", "says", "get", "end"}
  PROVE  \/ \E e : e # "none" /\ Raise(e)
         \/ pc' = pc + 1 /\ UNCHANGED <<todo, reported>>
<1>1. CASE OpenReader
  BY <1>1, Raised DEF OpenReader, Continue
<1>2. CASE EnterTry \/ EndBlock
  BY <1>2 DEF EnterTry, EndBlock, Continue
<1>3. CASE Lookup
  <2>1. CASE readers[On] = "unbound" \/ readers[On] = "closed" \/ Invalid
    BY <1>3, <2>1 DEF Lookup
  <2>2. CASE ~(readers[On] = "unbound" \/ readers[On] = "closed" \/ Invalid)
    BY <1>3, <2>2, Raised DEF Lookup, Continue
  <2> QED BY <2>1, <2>2
<1>4. CASE Say
  BY <1>4 DEF Say, Continue
<1>5. ~ReadMetadata /\ ~CloseReader /\ ~Jump /\ ~StartLoop /\ ~LoopHead
  BY DEF ReadMetadata, CloseReader, Jump, StartLoop, LoopHead, At
<1>6. ~LoopEnd /\ ~StartIteration /\ ~NextNetwork /\ ~Break /\ ~Leave
  BY DEF LoopEnd, StartIteration, NextNetwork, Break, Leave, At
<1> QED BY <1>1, <1>2, <1>3, <1>4, <1>5, <1>6 DEF Step

\* Only the loops over lists change what is reported.
LEMMA ReportedListed ==
  ASSUME ProgramInv, FourInv, Step
  PROVE  reported' \in Seq(Listed)
<1>1. reported \in Seq(Listed) /\ <<>> \in Seq(Listed)
  BY DEF FourInv
<1>2. CASE LoopEnd
  <2>1. ~Over /\ Body[pc].do = "report" /\ reported' = Append(reported, Head(todo))
    BY <1>2 DEF LoopEnd, At
  <2>2. todo \in Seq(Listed) /\ todo # <<>>
    BY <2>1, Placed DEF Follows, Here, ItemInv, ProgramInv, PlaceInv
  <2>3. Head(todo) \in Listed
    BY <2>2, EmptySeq
  <2> QED BY <1>1, <2>1, <2>3, AppendProperties
<1>3. CASE StartLoop \/ Leave
  BY <1>1, <1>3 DEF StartLoop, Leave
<1>4. CASE OpenReader \/ EnterTry \/ EndBlock \/ ReadMetadata \/ CloseReader \/ Say \/ Jump
  BY <1>1, <1>4 DEF OpenReader, EnterTry, EndBlock, ReadMetadata, CloseReader, Say, Jump, Raise
<1>5. CASE LoopHead \/ StartIteration \/ NextNetwork \/ Break
  BY <1>1, <1>5 DEF LoopHead, StartIteration, NextNetwork, Break, Raise
<1>6. CASE Lookup
  <2>1. UNCHANGED reported
    <3>1. CASE readers[On] = "unbound" \/ readers[On] = "closed" \/ Invalid
      BY <1>6, <3>1 DEF Lookup, Raise
    <3>2. CASE ~(readers[On] = "unbound" \/ readers[On] = "closed" \/ Invalid)
      BY <1>6, <3>2 DEF Lookup, Raise
    <3> QED BY <3>1, <3>2
  <2> QED BY <1>1, <2>1
<1> QED BY <1>2, <1>3, <1>4, <1>5, <1>6 DEF Step

\* One item more is reported and one less is left to do.
LEMMA Reports ==
  ASSUME NEW r \in Seq(Listed), NEW t \in Seq(Listed), t # <<>>
  PROVE  Append(r, Head(t)) \o Tail(t) = r \o t
<1>1. Len(t) \in Nat \ {0} /\ Head(t) = t[1] /\ Tail(t) \in Seq(Listed)
  BY EmptySeq
<1> QED BY <1>1

\* What is reported and what is left are the addresses, statement by statement.
LEMMA FourStep == ProgramInv /\ FourInv /\ Step => FourInv'
<1> SUFFICES ASSUME ProgramInv, FourInv, Step,
                    file' = "context_manager", nth' = 2, raised' = "none"
             PROVE  /\ pc' \in 5 .. 10 => reported' \o todo' = FourAddresses
                    /\ pc' \in 11 .. 13 => reported' = FourAddresses
  BY ReportedListed DEF FourInv
<1>1. CASE Leave
  BY <1>1 DEF Leave
<1>2. CASE ~Leave
  <2>1. ~Over /\ UNCHANGED <<file, nth>>
    <3>1. CASE OpenReader \/ EnterTry \/ EndBlock \/ ReadMetadata \/ CloseReader \/ Say \/ Jump
      BY <3>1 DEF OpenReader, EnterTry, EndBlock, ReadMetadata, CloseReader, Say, Jump, At,
                  Raise, Continue
    <3>2. CASE StartLoop \/ LoopHead \/ LoopEnd \/ StartIteration \/ NextNetwork \/ Break
      BY <3>2 DEF StartLoop, LoopHead, LoopEnd, StartIteration, NextNetwork, Break, At,
                  Raise, Continue
    <3>3. CASE Lookup
      <4>1. ~Over
        BY <3>3 DEF Lookup, At
      <4>2. CASE readers[On] = "unbound" \/ readers[On] = "closed" \/ Invalid
        BY <3>3, <4>1, <4>2 DEF Lookup, Raise
      <4>3. CASE ~(readers[On] = "unbound" \/ readers[On] = "closed" \/ Invalid)
        BY <3>3, <4>1, <4>3 DEF Lookup, Raise, Continue
      <4> QED BY <4>2, <4>3
    <3> QED BY <1>2, <3>1, <3>2, <3>3 DEF Step
  <2>2. file = "context_manager" /\ nth = 2 /\ raised = "none"
    BY <2>1 DEF Over
  <2>3. pc \in 1 .. 13 /\ Here = HandlingOutline[pc]
    BY <2>1, <2>2, HandlingLoop, Placed DEF Here
  <2>4. /\ pc \in 5 .. 10 => reported \o todo = FourAddresses
        /\ pc \in 11 .. 13 => reported = FourAddresses
        /\ reported \in Seq(Listed) /\ todo \in Seq(Listed)
    BY <2>2 DEF FourInv, ProgramInv, PlaceInv
  <2>5. CASE \E e : e # "none" /\ Raise(e)
    <3>1. UNCHANGED <<todo, reported>>
      BY <2>1, <2>5, RaisedTo
    <3>2. PICK k \in 1 .. Len(Here.blocks) :
                 Here.blocks[k].kind = "try" /\ pc' = Here.blocks[k].to
      BY <2>1, <2>5, RaisedTo
    <3>3. pc' = 14 \/ (pc' = 9 /\ pc \in 7 .. 8)
      <4>1. /\ k \in 1 .. Len(HandlingOutline[pc].blocks)
            /\ HandlingOutline[pc].blocks[k].kind = "try"
            /\ pc' = HandlingOutline[pc].blocks[k].to
        BY <2>3, <3>2
      <4> QED BY <2>3, <4>1, HandlingHandlers
    <3> QED BY <2>4, <3>1, <3>3
  <2>6. CASE pc' = pc + 1 /\ UNCHANGED <<todo, reported>> /\ pc \notin {4, 5, 9, 10}
    BY <2>3, <2>4, <2>6
  <2>7. CASE pc = 4
    <3>1. Body[pc].do = "foreach" /\ Arg = FourAddresses
      BY <2>2, <2>7, HandlingLoop DEF Arg
    <3>2. StartLoop
      BY <1>2, <2>1, <3>1 DEF Step, OpenReader, EnterTry, EndBlock, Lookup, ReadMetadata,
         CloseReader, Say, Jump, LoopHead, LoopEnd, StartIteration, NextNetwork, Break, At
    <3>3. todo' = FourAddresses /\ reported' = <<>> /\ pc' = 5
      BY <2>7, <3>1, <3>2 DEF StartLoop, Continue
    <3>4. <<>> \o FourAddresses = FourAddresses
      BY ListsAre
    <3> QED BY <3>3, <3>4
  <2>8. CASE pc = 5
    <3>1. Body[pc].do = "next" /\ Arg = 11
      BY <2>2, <2>8, HandlingLoop DEF Arg
    <3>2. LoopHead
      BY <1>2, <2>1, <3>1 DEF Step, OpenReader, EnterTry, EndBlock, Lookup, ReadMetadata,
         CloseReader, Say, Jump, StartLoop, LoopEnd, StartIteration, NextNetwork, Break, At
    <3>3. UNCHANGED <<todo, reported>> /\ pc' = IF todo = <<>> THEN 11 ELSE 6
      BY <2>8, <3>1, <3>2 DEF LoopHead, Continue
    <3>4. todo = <<>> => reported = FourAddresses
      BY <2>4, <2>8
    <3> QED BY <2>4, <2>8, <3>3, <3>4
  <2>9. CASE pc = 9
    <3>1. Body[pc].do = "report"
      BY <2>2, <2>9, HandlingLoop
    <3>2. LoopEnd
      BY <1>2, <2>1, <3>1 DEF Step, OpenReader, EnterTry, EndBlock, Lookup, ReadMetadata,
         CloseReader, Say, Jump, StartLoop, LoopHead, StartIteration, NextNetwork, Break, At
    <3>3. reported' = Append(reported, Head(todo)) /\ todo' = Tail(todo) /\ pc' = 10
      BY <2>9, <3>2 DEF LoopEnd, Continue
    <3>4. todo # <<>>
      BY <2>1, <3>1, Placed DEF Follows, Here, ItemInv
    <3>5. Append(reported, Head(todo)) \o Tail(todo) = reported \o todo
      BY <2>4, <3>4, Reports, Zenon
    <3>6. reported \o todo = FourAddresses
      BY <2>4, <2>9
    <3>7. reported' \o todo' = FourAddresses
      BY <3>3, <3>5, <3>6, Zenon
    <3>8. ~(pc' \in 11 .. 13)
      BY <3>3
    <3> QED BY <3>7, <3>8
  <2>10. CASE pc = 10
    <3>1. Body[pc].do = "goto" /\ Arg = 5
      BY <2>2, <2>10, HandlingLoop DEF Arg
    <3>2. Jump
      BY <1>2, <2>1, <3>1 DEF Step, OpenReader, EnterTry, EndBlock, Lookup, ReadMetadata,
         CloseReader, Say, LoopEnd, StartLoop, LoopHead, StartIteration, NextNetwork, Break, At
    <3> QED BY <2>4, <2>10, <3>1, <3>2 DEF Jump, Continue
  <2>11. CASE pc \notin {4, 5, 9, 10}
    <3>1. Body[pc].do \in {"try", "with", "says", "get", "end"}
      BY <2>2, <2>3, <2>11, HandlingLoop
    <3> QED BY <2>1, <2>5, <2>6, <2>11, <3>1, GoesOn
  <2> QED BY <2>7, <2>8, <2>9, <2>10, <2>11
<1> QED BY <1>1, <1>2

\* What an example prints of its readers is true of them, and by the last line of the
\* function with exception handling each address has been reported, in order and once.
THEOREM SaysTheTruth == Spec => []ReportsAreTrue
<1>1. Init => FourInv
  BY DEF Init, FourInv
<1>2. ProgramInv /\ FourInv /\ [Step]_vars => FourInv'
  BY FourStep DEF vars, FourInv
<1>3. ProgramInv /\ FourInv => ReportsAreTrue
  <2> SUFFICES ASSUME ProgramInv, FourInv, At("says") PROVE ReportsAreTrue
    BY DEF ReportsAreTrue
  <2>1. ~Over /\ Body[pc].do = "says"
    BY DEF At
  <2>2. /\ On \subseteq Name /\ On \subseteq IF Arg THEN Here.closed ELSE Here.open
        /\ ReadersInv /\ pc \in 1 .. Len(Body) /\ raised = "none"
    BY <2>1, Placed DEF Follows, Here, On, Arg
  <2>3. \A x \in On : readers[x] = IF Arg THEN "closed" ELSE "open"
    BY <2>2 DEF ReadersInv
  <2>4. ASSUME file = "context_manager", nth = 2, Arg PROVE reported = FourAddresses
    <3>1. pc = 13
      BY <2>1, <2>2, <2>4, HandlingLoop DEF Arg
    <3> QED BY <2>2, <2>4, <3>1 DEF FourInv
  <2> QED BY <2>3, <2>4 DEF ReportsAreTrue
<1> QED BY <1>1, <1>2, <1>3, ProgramKept, PTL DEF Spec
=============================================================================
