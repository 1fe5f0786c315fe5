-------------------------- MODULE Ipv4ParserProofs --------------------------
(* On every text, with any number of octets: the arithmetic of               *)
(* parse_ipv4_string stays in bounds, and what it accepts is an address.     *)
EXTENDS Ipv4Parser, FiniteSetTheorems, SequenceTheorems, WellFoundedInduction, TLAPS

\* One more digit does not wrap a u16.
LEMMA NoWrap ==
  ASSUME NEW v \in Int, 0 <= v, v <= 255, NEW d \in Int, 0 <= d, d <= 9
  PROVE  (v * 10 + d) % 65536 = v * 10 + d
  OBVIOUS

\* The cast to u8 of a number that is an octet.
LEMMA StoredIsValue ==
  ASSUME value \in 0 .. 255, octets \in Seq(Octet)
  PROVE  Stored \in Seq(Octet) /\ Len(Stored) = Len(octets) + 1
<1>1. value % 256 = value
  OBVIOUS
<1>2. Stored = Append(octets, value) /\ value \in Octet
  BY <1>1 DEF Stored, Octet
<1> QED
  BY <1>2

\* One more byte: an octet is stored only below index Last, a digit is taken only while
\* the number it makes is an octet.
LEMMA ReadInBounds ==
  ASSUME TypeOK, NEW b \in Byte, Read(b)
  PROVE  TypeOK'
<1>1. text' \in Seq(Byte) /\ outcome = "reading"
  BY DEF Read, TypeOK
<1>2. CASE Rejects(b) /\ outcome' = "rejected" /\ UNCHANGED <<octets, value, digits>>
  BY <1>1, <1>2 DEF TypeOK, Outcome
<1>3. CASE ~Rejects(b) /\ b = Dot /\ octets' = Stored /\ value' = 0 /\ digits' = 0 /\ UNCHANGED outcome
  <2>1. Len(octets) \in Nat /\ Len(octets) <= Last /\ Len(octets) # Last
    BY <1>1, <1>3 DEF Rejects, TypeOK
  <2>2. octets' \in Seq(Octet) /\ Len(octets') = Len(octets) + 1
    BY <1>3, StoredIsValue DEF TypeOK
  <2>3. Len(octets') <= Last
    BY <2>1, <2>2, LastAssumption
  <2> QED
    BY <1>1, <1>3, <2>2, <2>3 DEF TypeOK, Outcome
<1>4. CASE ~Rejects(b) /\ b \in Digit /\ value' = Grown(b) /\ digits' = digits + 1 /\ UNCHANGED <<octets, outcome>>
  <2>1. b \in 0 .. 9 /\ b # Dot
    BY <1>4, ByteAssumption
  <2>2. value \in 0 .. 255 /\ digits \in 0 .. 3
    BY DEF TypeOK
  <2>3. Grown(b) = value * 10 + b
    BY <2>1, <2>2, NoWrap DEF Grown
  <2>4. ~(digits + 1 > 3) /\ ~(Grown(b) > 255)
    BY <1>4, <2>1 DEF Rejects
  <2>5. value' \in 0 .. 255 /\ digits' \in 0 .. 3
    BY <1>4, <2>1, <2>2, <2>3, <2>4
  <2> QED
    BY <1>1, <1>4, <2>5 DEF TypeOK, Outcome
<1> QED
  BY <1>2, <1>3, <1>4 DEF Read

\* The last octet goes to index Last of the array.
LEMMA EndInBounds ==
  ASSUME TypeOK, End
  PROVE  TypeOK'
<1>1. outcome = "reading" /\ UNCHANGED <<text, value, digits>>
  BY DEF End
<1>2. CASE outcome' = "incomplete" /\ UNCHANGED octets
  BY <1>1, <1>2 DEF TypeOK, Outcome
<1>3. CASE Len(octets) = Last /\ outcome' = "address" /\ octets' = Stored
  <2>1. octets' \in Seq(Octet) /\ Len(octets') = Last + 1
    BY <1>3, StoredIsValue DEF TypeOK
  <2> QED
    BY <1>1, <1>3, <2>1, LastAssumption DEF TypeOK, Outcome
<1> QED
  BY <1>2, <1>3 DEF End

\* On every text, with any number of octets: the u16 never wraps, the cast to u8 loses
\* nothing and no octet is stored outside the array.
THEOREM InBounds == Spec => []TypeOK
<1>1. Init => TypeOK
  BY LastAssumption DEF Init, TypeOK, Outcome
<1>2. TypeOK /\ [Next]_vars => TypeOK'
  <2> SUFFICES ASSUME TypeOK, [Next]_vars PROVE TypeOK'
    OBVIOUS
  <2>1. CASE End
    BY <2>1, EndInBounds
  <2>2. ASSUME NEW b \in Byte, Read(b) PROVE TypeOK'
    BY <2>2, ReadInBounds
  <2>3. CASE UNCHANGED vars
    BY <2>3 DEF vars, TypeOK
  <2> QED
    BY <2>1, <2>2, <2>3 DEF Next
<1> QED
  BY <1>1, <1>2, PTL DEF Spec

-----------------------------------------------------------------------------
(* One more byte of a text                                                 *)

\* A nonempty set of naturals has a least member.
LEMMA LeastNatural ==
  ASSUME NEW T \in SUBSET Nat, T # {}
  PROVE  \E m \in T : \A n \in T : m <= n
<1> DEFINE R == {ss \in Nat \X Nat : ss[1] < ss[2]}
<1>1. IsWellFoundedOn(R, Nat)
  BY NatLessThanWellFounded DEF OpToRel
<1>2. PICK m \in T : \A n \in T : <<n, m>> \notin R
  <2> HIDE DEF R
  <2> QED BY <1>1, WFMin
<1>3. ASSUME NEW n \in T PROVE m <= n
  <2>1. <<n, m>> \in Nat \X Nat /\ <<n, m>>[1] = n /\ <<n, m>>[2] = m
    OBVIOUS
  <2> QED BY <1>2, <2>1
<1> QED BY <1>3

\* The positions of the n-th field.
Place(s, n) == {k \in DOMAIN s \ Dots(s) : Cardinality({j \in Dots(s) : j < k}) = n}
Span(s, P) == IF P = {} THEN <<>> ELSE SubSeq(s, Min(P), Max(P))

\* The bytes between two dots are the field that IsAddress splits off there.
LEMMA FieldIs ==
  ASSUME NEW s, NEW n
  PROVE  Field(s, n) = Span(s, Place(s, n))
BY DEF Field, Place, Span

\* The first and the last of some positions.
LEMMA Ends ==
  ASSUME NEW N \in Nat, NEW P \in SUBSET (1..N), P # {}
  PROVE  /\ Min(P) \in P /\ \A k \in P : Min(P) <= k
         /\ \A m \in P : (\A k \in P : k <= m) => Max(P) = m
<1>1. \E m \in P : \A k \in P : m <= k
  <2>1. P \in SUBSET Nat
    OBVIOUS
  <2> QED BY <2>1, LeastNatural
<1>2. Min(P) \in P /\ \A k \in P : Min(P) <= k
  BY <1>1 DEF Min
<1>3. ASSUME NEW m \in P, \A k \in P : k <= m PROVE Max(P) = m
  <2>1. \A x \in P : (\A y \in P : x >= y) => x = m
    <3>1. \A x \in P : x >= m /\ x <= m => x = m
      OBVIOUS
    <3> QED BY <1>3, <3>1
  <2>2. \A y \in P : m >= y
    BY <1>3
  <2> QED BY <2>1, <2>2 DEF Max
<1> QED BY <1>2, <1>3

\* What follows the text does not change what is in it.
LEMMA SpanBelow ==
  ASSUME NEW s \in Seq(Byte), NEW b \in Byte, NEW P \in SUBSET (1..Len(s))
  PROVE  Span(Append(s, b), P) = Span(s, P)
<1>1. CASE P = {}
  BY <1>1 DEF Span
<1>2. CASE P # {}
  <2>1. PICK n \in Nat : n = Len(s)
    BY LenProperties
  <2>2. /\ \A k \in 1..n : Append(s, b)[k] = s[k] /\ s[k] \in Byte
    BY <2>1, AppendProperties, ElementOfSeq
  <2>3. Min(P) \in 1..n
    BY <1>2, <2>1, Ends
  <2>4. Max(P) \in 1..n
    <3>1. \E m \in P : \A k \in P : k <= m
      <4> DEFINE U == {n - k : k \in P}
      <4>1. \A k \in P : k \in 1..n /\ n - k \in Nat
        BY <2>1
      <4>2. U \in SUBSET Nat /\ U # {}
        BY <1>2, <4>1
      <4>3. PICK u \in U : \A w \in U : u <= w
        <5> HIDE DEF U
        <5> QED BY <4>2, LeastNatural
      <4>4. PICK m \in P : u = n - m
        OBVIOUS
      <4>5. \A k \in P : n - m <= n - k
        BY <4>3, <4>4
      <4>6. \A k \in P : k <= m
        BY <2>1, <4>1, <4>5
      <4> QED BY <4>6
    <3> QED BY <1>2, <2>1, <3>1, Ends
  <2> DEFINE l == Min(P)
             h == Max(P)
             u == Append(s, b)
  <2> HIDE DEF l, h, u
  <2>5. l \in 1..n /\ h \in 1..n /\ \A k \in 1..n : u[k] = s[k] /\ s[k] \in Byte
    BY <2>2, <2>3, <2>4 DEF l, h, u
  <2>6. \A k \in l..h : k \in 1..n /\ u[k] \in Byte /\ s[k] \in Byte
    BY <2>5
  <2>7. /\ SubSeq(u, l, h) \in Seq(Byte) /\ SubSeq(s, l, h) \in Seq(Byte)
        /\ Len(SubSeq(u, l, h)) = Len(SubSeq(s, l, h))
        /\ Len(SubSeq(u, l, h)) = IF l <= h THEN h - l + 1 ELSE 0
        /\ \A k \in 1..h - l + 1 : SubSeq(u, l, h)[k] = u[l + k - 1] /\ SubSeq(s, l, h)[k] = s[l + k - 1]
    BY <2>5, <2>6, SubSeqProperties
  <2>8. \A k \in 1..Len(SubSeq(u, l, h)) : k \in 1..h - l + 1 /\ l + k - 1 \in 1..n
    BY <2>5, <2>7
  <2>9. SubSeq(u, l, h) = SubSeq(s, l, h)
    BY <2>5, <2>7, <2>8, SeqEqual
  <2> QED BY <1>2, <2>9 DEF Span, l, h, u
<1> QED BY <1>1, <1>2

\* A field that reaches to the end of the text grows by what follows.
LEMMA SpanGrows ==
  ASSUME NEW s \in Seq(Byte), NEW b \in Byte, NEW P \in SUBSET (1..Len(s)),
         P # {} => Len(s) \in P
  PROVE  Span(Append(s, b), P \cup {Len(s) + 1}) = Append(Span(s, P), b)
<1>1. PICK n \in Nat : n = Len(s)
  BY LenProperties
<1> DEFINE u == Append(s, b)
           Q == P \cup {n + 1}
<1>2. /\ \A k \in 1..n : u[k] = s[k] /\ s[k] \in Byte
      /\ u[n + 1] = b
  BY <1>1, AppendProperties, ElementOfSeq
<1>3. Q # {} /\ Q \in SUBSET (1..(n + 1)) /\ n + 1 \in Q /\ \A k \in Q : k <= n + 1
  <2>1. \A k \in 1..n : k \in 1..(n + 1) /\ k <= n + 1
    OBVIOUS
  <2>2. n + 1 \in 1..(n + 1) /\ n + 1 <= n + 1
    OBVIOUS
  <2> QED BY <1>1, <2>1, <2>2
<1>4. Max(Q) = n + 1 /\ Min(Q) \in Q /\ \A k \in Q : Min(Q) <= k
  <2> HIDE DEF Q
  <2>1. n + 1 \in Nat
    OBVIOUS
  <2> QED BY <1>3, <2>1, Ends
<1> HIDE DEF u
<1>5. CASE P = {}
  <2>1. Min(Q) = n + 1
    BY <1>4, <1>5
  <2>2. Span(u, Q) = SubSeq(u, n + 1, n + 1)
    BY <1>3, <1>4, <2>1 DEF Span
  <2>3. /\ SubSeq(u, n + 1, n + 1) \in Seq(Byte) /\ Len(SubSeq(u, n + 1, n + 1)) = 1
        /\ SubSeq(u, n + 1, n + 1)[1] = b
    <3>1. n + 1 \in Int /\ \A k \in (n + 1)..(n + 1) : u[k] \in Byte
      BY <1>2
    <3>2. /\ SubSeq(u, n + 1, n + 1) \in Seq(Byte)
          /\ Len(SubSeq(u, n + 1, n + 1)) = IF n + 1 <= n + 1 THEN n + 1 - (n + 1) + 1 ELSE 0
          /\ \A i \in 1 .. n + 1 - (n + 1) + 1 : SubSeq(u, n + 1, n + 1)[i] = u[n + 1 + i - 1]
      BY <3>1, SubSeqProperties
    <3>3. n + 1 - (n + 1) + 1 = 1 /\ 1 \in 1..1 /\ n + 1 + 1 - 1 = n + 1 /\ n + 1 <= n + 1
      OBVIOUS
    <3> QED BY <1>2, <3>2, <3>3
  <2>4. SubSeq(u, n + 1, n + 1) = Append(<<>>, b)
    <3> DEFINE one == SubSeq(u, n + 1, n + 1)
    <3>1. Append(<<>>, b) \in Seq(Byte) /\ Len(Append(<<>>, b)) = 1 /\ Append(<<>>, b)[1] = b
      OBVIOUS
    <3>2. \A i \in 1..1 : i = 1
      OBVIOUS
    <3> HIDE DEF one
    <3>3. one \in Seq(Byte) /\ Len(one) = 1 /\ one[1] = b
      BY <2>3 DEF one
    <3>4. one = Append(<<>>, b)
      BY <3>1, <3>2, <3>3, SeqEqual
    <3> QED BY <3>4 DEF one
  <2> QED BY <1>1, <1>5, <2>2, <2>4 DEF Span, u
<1>6. CASE P # {}
  <2>1. n \in P /\ P \in SUBSET (1..n) /\ \A k \in P : k <= n
    BY <1>1, <1>6
  <2>2. Max(P) = n /\ Min(P) \in P /\ \A k \in P : Min(P) <= k
    BY <1>6, <2>1, Ends
  <2>3. Min(P) = Min(Q)
    <3>1. Min(P) <= Min(Q) /\ Min(Q) <= Min(P)
      <4>1. Min(P) \in Q /\ Min(P) \in 1..n /\ (Min(Q) \in P \/ Min(Q) = n + 1)
        BY <1>4, <2>1, <2>2
      <4>2. Min(P) <= n + 1
        BY <4>1
      <4> QED BY <1>4, <2>2, <4>1, <4>2
    <3>2. Min(P) \in Int /\ Min(Q) \in Int
      <4>1. Min(P) \in 1..n
        BY <2>1, <2>2
      <4> HIDE DEF Q
      <4>2. Min(Q) \in 1..(n + 1)
        BY <1>3, <1>4
      <4> QED BY <4>1, <4>2
    <3> QED BY <3>1, <3>2
  <2>4. PICK l \in 1..n : l = Min(P)
    BY <2>1, <2>2
  <2>5. Span(u, Q) = SubSeq(u, l, n + 1) /\ Span(s, P) = SubSeq(s, l, n)
    BY <1>3, <1>4, <1>6, <2>2, <2>3, <2>4 DEF Span
  <2>6. /\ \A k \in l..n : s[k] \in Byte
        /\ \A k \in l..(n + 1) : u[k] \in Byte
    <3>1. \A k \in l..(n + 1) : k \in 1..n \/ k = n + 1
      OBVIOUS
    <3> QED BY <1>2, <3>1
  <2>7. /\ SubSeq(s, l, n) \in Seq(Byte) /\ Len(SubSeq(s, l, n)) = n - l + 1
        /\ \A k \in 1..n - l + 1 : SubSeq(s, l, n)[k] = s[l + k - 1]
    BY <2>6, SubSeqProperties
  <2>8. /\ SubSeq(u, l, n + 1) \in Seq(Byte) /\ Len(SubSeq(u, l, n + 1)) = n + 1 - l + 1
        /\ \A k \in 1..n + 1 - l + 1 : SubSeq(u, l, n + 1)[k] = u[l + k - 1]
    BY <2>6, SubSeqProperties
  <2> DEFINE w == Append(SubSeq(s, l, n), b)
  <2>9. /\ w \in Seq(Byte) /\ Len(w) = n - l + 1 + 1
        /\ \A k \in 1..n - l + 1 : w[k] = SubSeq(s, l, n)[k]
        /\ w[n - l + 1 + 1] = b
    BY <2>7, AppendProperties
  <2> HIDE DEF w
  <2>10. ASSUME NEW k \in 1..n + 1 - l + 1 PROVE SubSeq(u, l, n + 1)[k] = w[k]
    <3>1. CASE k = n + 1 - l + 1
      <4>1. l + k - 1 = n + 1 /\ k = n - l + 1 + 1
        BY <3>1
      <4> QED BY <1>2, <2>8, <2>9, <4>1
    <3>2. CASE k # n + 1 - l + 1
      <4>1. k \in 1..n - l + 1 /\ l + k - 1 \in 1..n
        BY <3>2
      <4> QED BY <1>2, <2>7, <2>8, <2>9, <4>1
    <3> QED BY <3>1, <3>2
  <2>11. SubSeq(u, l, n + 1) = w
    <3>1. Len(SubSeq(u, l, n + 1)) = Len(w)
      BY <2>8, <2>9
    <3> QED BY <2>8, <2>9, <2>10, <3>1, SeqEqual
  <2> QED BY <1>1, <2>5, <2>11 DEF w, u
<1> QED BY <1>5, <1>6

\* The dots of a text, and those before one of its bytes.
LEMMA DotsFinite ==
  ASSUME NEW s \in Seq(Byte)
  PROVE  /\ Dots(s) \in SUBSET (1..Len(s)) /\ IsFiniteSet(Dots(s)) /\ Cardinality(Dots(s)) \in Nat
         /\ \A k : Cardinality({j \in Dots(s) : j < k}) <= Cardinality(Dots(s))
         /\ \A k : Cardinality({j \in Dots(s) : j < k}) = Cardinality(Dots(s))
                    => \A j \in Dots(s) : j < k
<1>1. Len(s) \in Nat /\ DOMAIN s = 1..Len(s)
  BY LenProperties
<1>2. Dots(s) \in SUBSET (1..Len(s))
  BY <1>1 DEF Dots
<1>3. IsFiniteSet(Dots(s))
  <2>1. IsFiniteSet(1..Len(s))
    BY <1>1, FS_Interval
  <2> QED BY <1>2, <2>1, FS_Subset
<1>4. ASSUME NEW k
      PROVE  /\ Cardinality({j \in Dots(s) : j < k}) <= Cardinality(Dots(s))
             /\ Cardinality({j \in Dots(s) : j < k}) = Cardinality(Dots(s))
                  => \A j \in Dots(s) : j < k
  <2> DEFINE T == {j \in Dots(s) : j < k}
  <2>1. T \in SUBSET Dots(s)
    OBVIOUS
  <2>2. Cardinality(T) <= Cardinality(Dots(s)) /\ (Cardinality(Dots(s)) = Cardinality(T) => Dots(s) = T)
    <3> HIDE DEF T
    <3> QED BY <1>3, <2>1, FS_Subset
  <2> QED BY <2>2
<1> QED BY <1>2, <1>3, <1>4, FS_CardinalityType

\* A dot ends the last field and begins an empty one; another byte goes to the last field.
LEMMA FieldsGrow ==
  ASSUME NEW s \in Seq(Byte), NEW b \in Byte, NEW c, c = Cardinality(Dots(s))
  PROVE  /\ b = Dot => /\ Cardinality(Dots(Append(s, b))) = c + 1
                       /\ \A n \in 0..c : Field(Append(s, b), n) = Field(s, n)
                       /\ Field(Append(s, b), c + 1) = <<>>
         /\ b # Dot => /\ Cardinality(Dots(Append(s, b))) = c
                       /\ \A n \in 0..(c - 1) : Field(Append(s, b), n) = Field(s, n)
                       /\ Field(Append(s, b), c) = Append(Field(s, c), b)
<1> DEFINE u == Append(s, b)
<1>1. PICK N \in Nat : N = Len(s)
  BY LenProperties
<1>2. /\ DOMAIN s = 1..N /\ u \in Seq(Byte) /\ Len(u) = N + 1 /\ DOMAIN u = 1..(N + 1)
      /\ \A k \in 1..N : u[k] = s[k]
      /\ u[N + 1] = b
  BY <1>1, LenProperties, AppendProperties
<1> HIDE DEF u
<1>3. 1..(N + 1) = 1..N \cup {N + 1} /\ N + 1 \notin 1..N
  OBVIOUS
<1>4. /\ Dots(s) \in SUBSET (1..N) /\ IsFiniteSet(Dots(s)) /\ c \in Nat
      /\ \A k : Cardinality({j \in Dots(s) : j < k}) <= c
      /\ \A k : Cardinality({j \in Dots(s) : j < k}) = c => \A j \in Dots(s) : j < k
  BY <1>1, DotsFinite
<1>5. \A n : Place(s, n) \in SUBSET (1..N)
  BY <1>2 DEF Place
<1>6. Dots(u) = IF b = Dot THEN Dots(s) \cup {N + 1} ELSE Dots(s)
  BY <1>2, <1>3 DEF Dots
<1>7. ASSUME NEW k \in 1..(N + 1) PROVE {j \in Dots(u) : j < k} = {j \in Dots(s) : j < k}
  <2>1. ~(N + 1 < k)
    OBVIOUS
  <2> QED BY <1>6, <2>1
<1>8. {j \in Dots(s) : j < N + 1} = Dots(s)
  BY <1>4
<1>9. ASSUME NEW n
      PROVE  Place(u, n) = IF b # Dot /\ n = c THEN Place(s, n) \cup {N + 1} ELSE Place(s, n)
  <2>1. ASSUME NEW k \in 1..N PROVE k \in Place(u, n) <=> k \in Place(s, n)
    <3>1. k \in 1..(N + 1) /\ k # N + 1
      OBVIOUS
    <3>2. k \in Dots(u) <=> k \in Dots(s)
      BY <1>6, <3>1
    <3> QED BY <1>2, <1>7, <3>1, <3>2 DEF Place
  <2>2. N + 1 \in Place(u, n) <=> b # Dot /\ n = c
    <3>1. N + 1 \in Dots(u) <=> b = Dot
      BY <1>3, <1>4, <1>6
    <3>2. N + 1 \in 1..(N + 1)
      OBVIOUS
    <3>3. Cardinality({j \in Dots(u) : j < N + 1}) = c
      BY <1>7, <1>8, <3>2
    <3> QED BY <1>2, <3>1, <3>2, <3>3 DEF Place
  <2>3. Place(u, n) \subseteq 1..N \cup {N + 1} /\ Place(s, n) \subseteq 1..N
    BY <1>2, <1>3 DEF Place
  <2>4. \A k : k \in Place(u, n) <=> k \in Place(s, n) \/ (k = N + 1 /\ b # Dot /\ n = c)
    BY <1>3, <2>1, <2>2, <2>3
  <2> QED BY <2>4
<1>10. ASSUME NEW n, Place(u, n) = Place(s, n) PROVE Field(u, n) = Field(s, n)
  BY <1>1, <1>5, <1>10, FieldIs, SpanBelow DEF u
<1>11. CASE b = Dot
  <2>1. Cardinality(Dots(u)) = c + 1
    BY <1>3, <1>4, <1>6, <1>11, FS_AddElement
  <2>2. \A n : Field(u, n) = Field(s, n)
    BY <1>9, <1>10, <1>11
  <2>3. Place(s, c + 1) = {}
    <3>1. ~(c + 1 <= c)
      BY <1>4
    <3>2. \A k : Cardinality({j \in Dots(s) : j < k}) # c + 1
      BY <1>4, <3>1
    <3> QED BY <3>2 DEF Place
  <2>4. Field(s, c + 1) = <<>>
    BY <2>3, FieldIs DEF Span
  <2> QED BY <1>11, <2>1, <2>2, <2>4 DEF u
<1>12. CASE b # Dot
  <2>1. Cardinality(Dots(u)) = c
    BY <1>6, <1>12
  <2>2. \A n \in 0..(c - 1) : n # c
    BY <1>4
  <2>3. \A n \in 0..(c - 1) : Field(u, n) = Field(s, n)
    BY <1>9, <1>10, <2>2
  <2>4. ASSUME NEW k \in Place(s, c) PROVE N \in Place(s, c)
    <3>1. k \in 1..N /\ \A j \in Dots(s) : j < k
      BY <1>4, <1>5 DEF Place
    <3>2. N \in 1..N /\ N \notin Dots(s)
      BY <1>4, <3>1
    <3>3. \A j \in Dots(s) : j < N
      BY <1>4, <3>1
    <3>4. {j \in Dots(s) : j < N} = Dots(s)
      BY <3>3
    <3> QED BY <1>2, <3>2, <3>4 DEF Place
  <2>5. Span(u, Place(s, c) \cup {N + 1}) = Append(Span(s, Place(s, c)), b)
    BY <1>1, <1>5, <2>4, SpanGrows DEF u
  <2>6. Field(u, c) = Append(Field(s, c), b)
    BY <1>9, <1>12, <2>5, FieldIs
  <2> QED BY <1>12, <2>1, <2>3, <2>6 DEF u
<1> QED BY <1>11, <1>12

-----------------------------------------------------------------------------
(* Decimal numbers                                                         *)

\* The digits of an octet.
LEMMA DecimalIs ==
  ASSUME NEW v \in Octet
  PROVE  /\ v < 10 => Decimal(v) = <<v>>
         /\ ~(v < 10) /\ v < 100 => Decimal(v) = <<v \div 10, v % 10>>
         /\ ~(v < 100) => Decimal(v) = <<v \div 100, (v \div 10) % 10, v % 10>>
         /\ Decimal(v) \in Seq(0..9) /\ Len(Decimal(v)) \in 1..3
<1>0. v \in 0..255
  BY DEF Octet
<1>1. v < 10 => Decimal(v) = <<v>> /\ v \in 0..9
  BY <1>0 DEF Decimal
<1>2. ~(v < 10) /\ v < 100 =>
        Decimal(v) = <<v \div 10, v % 10>> /\ v \div 10 \in 0..9 /\ v % 10 \in 0..9
  BY <1>0 DEF Decimal
<1>3. ~(v < 100) => /\ Decimal(v) = <<v \div 100, (v \div 10) % 10, v % 10>>
                    /\ v \div 100 \in 0..9 /\ (v \div 10) % 10 \in 0..9 /\ v % 10 \in 0..9
  <2>1. ~(v < 100) => ~(v < 10)
    BY <1>0
  <2>2. v \div 100 \in 0..9 /\ (v \div 10) % 10 \in 0..9 /\ v % 10 \in 0..9
    BY <1>0
  <2> QED BY <2>1, <2>2 DEF Decimal
<1>4. \A a, b, c \in 0..9 : /\ <<a>> \in Seq(0..9) /\ Len(<<a>>) \in 1..3
                            /\ <<a, b>> \in Seq(0..9) /\ Len(<<a, b>>) \in 1..3
                            /\ <<a, b, c>> \in Seq(0..9) /\ Len(<<a, b, c>>) \in 1..3
  OBVIOUS
<1> DEFINE p == v \div 100
           q == (v \div 10) % 10
           r == v % 10
           h == v \div 10
<1>a. /\ v < 10 => Decimal(v) = <<v>> /\ v \in 0..9
      /\ ~(v < 10) /\ v < 100 => Decimal(v) = <<h, r>> /\ h \in 0..9 /\ r \in 0..9
      /\ ~(v < 100) => Decimal(v) = <<p, q, r>> /\ p \in 0..9 /\ q \in 0..9 /\ r \in 0..9
  BY <1>1, <1>2, <1>3
<1>b. /\ v < 10 => ~(~(v < 10) /\ v < 100) /\ v < 100
      /\ v < 10 \/ (~(v < 10) /\ v < 100) \/ ~(v < 100)
      /\ ~(v < 100) => ~(v < 10)
  BY <1>0
<1>c. SUFFICES /\ v < 10 => Decimal(v) = <<v>>
               /\ ~(v < 10) /\ v < 100 => Decimal(v) = <<h, r>>
               /\ ~(v < 100) => Decimal(v) = <<p, q, r>>
               /\ Decimal(v) \in Seq(0..9) /\ Len(Decimal(v)) \in 1..3
  OBVIOUS
<1> HIDE DEF p, q, r, h
<1>5. CASE v < 10
  <2>1. Decimal(v) = <<v>> /\ <<v>> \in Seq(0..9) /\ Len(<<v>>) \in 1..3
    BY <1>4, <1>5, <1>a
  <2> QED BY <1>5, <1>b, <2>1
<1>6. CASE ~(v < 10) /\ v < 100
  <2>1. Decimal(v) = <<h, r>> /\ <<h, r>> \in Seq(0..9) /\ Len(<<h, r>>) \in 1..3
    BY <1>4, <1>6, <1>a
  <2> QED BY <1>6, <2>1
<1>7. CASE ~(v < 100)
  <2>1. Decimal(v) = <<p, q, r>> /\ <<p, q, r>> \in Seq(0..9) /\ Len(<<p, q, r>>) \in 1..3
    BY <1>4, <1>7, <1>a
  <2> QED BY <1>7, <1>b, <2>1
<1> QED BY <1>5, <1>6, <1>7, <1>b

\* A number is zero or has no leading zero.
LEMMA DecimalLength ==
  ASSUME NEW v \in Octet
  PROVE  /\ Len(Decimal(v)) = 1 <=> v < 10
         /\ Len(Decimal(v)) = 2 <=> ~(v < 10) /\ v < 100
         /\ Len(Decimal(v)) = 3 <=> ~(v < 100)
<1>0. v \in 0..255
  BY DEF Octet
<1>1. v < 10 => Len(Decimal(v)) = 1
  BY DecimalIs
<1>2. ~(v < 10) /\ v < 100 => Len(Decimal(v)) = 2
  BY DecimalIs
<1>3. ~(v < 100) => Len(Decimal(v)) = 3
  BY DecimalIs
<1> QED BY <1>0, <1>1, <1>2, <1>3

\* What Append makes of one byte and of two.
LEMMA Appended ==
  ASSUME NEW a, NEW b, NEW d
  PROVE  Append(<<a>>, d) = <<a, d>> /\ Append(<<a, b>>, d) = <<a, b, d>>
<1> DEFINE S == {a, b, d}
<1>1. /\ <<a>> \in Seq(S) /\ <<a, d>> \in Seq(S) /\ Len(<<a>>) = 1 /\ Len(<<a, d>>) = 2
      /\ <<a, b>> \in Seq(S) /\ <<a, b, d>> \in Seq(S) /\ Len(<<a, b>>) = 2 /\ Len(<<a, b, d>>) = 3
  OBVIOUS
<1>2. /\ Append(<<a>>, d) \in Seq(S) /\ Len(Append(<<a>>, d)) = 2
      /\ Append(<<a>>, d)[1] = a /\ Append(<<a>>, d)[2] = d
  OBVIOUS
<1>3. /\ Append(<<a, b>>, d) \in Seq(S) /\ Len(Append(<<a, b>>, d)) = 3
      /\ Append(<<a, b>>, d)[1] = a /\ Append(<<a, b>>, d)[2] = b /\ Append(<<a, b>>, d)[3] = d
  OBVIOUS
<1>4. /\ <<a, d>>[1] = a /\ <<a, d>>[2] = d
      /\ <<a, b, d>>[1] = a /\ <<a, b, d>>[2] = b /\ <<a, b, d>>[3] = d
      /\ \A i \in 1..2 : i = 1 \/ i = 2
      /\ \A i \in 1..3 : i = 1 \/ i = 2 \/ i = 3
  OBVIOUS
<1> HIDE DEF S
<1>5. Append(<<a>>, d) = <<a, d>>
  <2> DEFINE x == Append(<<a>>, d)
             y == <<a, d>>
  <2>1. x \in Seq(S) /\ y \in Seq(S) /\ Len(x) = 2 /\ Len(y) = 2
    BY <1>1, <1>2
  <2>2. x[1] = y[1] /\ x[2] = y[2]
    BY <1>2, <1>4
  <2> HIDE DEF x, y
  <2>3. Len(x) = Len(y) /\ \A i \in 1..Len(x) : x[i] = y[i]
    BY <1>4, <2>1, <2>2
  <2>4. x = y
    BY <2>1, <2>3, SeqEqual
  <2> QED BY <2>4 DEF x, y
<1>6. Append(<<a, b>>, d) = <<a, b, d>>
  <2> DEFINE x == Append(<<a, b>>, d)
             y == <<a, b, d>>
  <2>1. x \in Seq(S) /\ y \in Seq(S) /\ Len(x) = 3 /\ Len(y) = 3
    BY <1>1, <1>3
  <2>2. x[1] = y[1] /\ x[2] = y[2] /\ x[3] = y[3]
    BY <1>3, <1>4
  <2> HIDE DEF x, y
  <2>3. Len(x) = Len(y) /\ \A i \in 1..Len(x) : x[i] = y[i]
    BY <1>4, <2>1, <2>2
  <2>4. x = y
    BY <2>1, <2>3, SeqEqual
  <2> QED BY <2>4 DEF x, y
<1> QED BY <1>5, <1>6

\* A digit after a number gives a number unless that was 0 or gets too large.
LEMMA DecimalGrows ==
  ASSUME NEW v \in Octet, NEW d \in 0..9
  PROVE  /\ v # 0 /\ v * 10 + d <= 255 =>
              Append(Decimal(v), d) = Decimal(v * 10 + d) /\ v * 10 + d \in Octet
         /\ v = 0 \/ v * 10 + d > 255 => Append(Decimal(v), d) \notin DecimalOctets
<1>0. v \in 0..255
  BY DEF Octet
<1>1. ASSUME v # 0, v * 10 + d <= 255
      PROVE  Append(Decimal(v), d) = Decimal(v * 10 + d) /\ v * 10 + d \in Octet
  <2>1. PICK n \in Octet : n = v * 10 + d
    BY <1>0, <1>1 DEF Octet
  <2>2. n \in 0..255 /\ v \in 1..25
    BY <1>0, <1>1, <2>1 DEF Octet
  <2>3. CASE v < 10
    <3>1. ~(n < 10) /\ n < 100 /\ n \div 10 = v /\ n % 10 = d
      BY <2>1, <2>2, <2>3
    <3>2. Decimal(n) = <<v, d>> /\ Decimal(v) = <<v>>
      BY <2>3, <3>1, DecimalIs
    <3> QED BY <2>1, <3>2, Appended
  <2>4. CASE ~(v < 10)
    <3>1. ~(n < 100) /\ v < 100
      BY <2>1, <2>2, <2>4
    <3>2. n \div 100 = v \div 10 /\ n \div 10 = v /\ n % 10 = d
      BY <2>1, <2>2
    <3>3. Decimal(n) = <<v \div 10, v % 10, d>> /\ Decimal(v) = <<v \div 10, v % 10>>
      BY <2>4, <3>1, <3>2, DecimalIs
    <3> QED BY <2>1, <3>3, Appended
  <2> QED BY <2>3, <2>4
<1>2. ASSUME NEW n \in Octet, Append(Decimal(v), d) = Decimal(n)
      PROVE  v # 0 /\ v * 10 + d = n
  <2>0. n \in 0..255
    BY DEF Octet
  <2>1. Len(Decimal(n)) = Len(Decimal(v)) + 1
    BY <1>2, DecimalIs, AppendProperties
  <2>2. CASE v < 10
    <3>1. Len(Decimal(v)) = 1
      BY <2>2, DecimalLength
    <3>2. Len(Decimal(n)) = 2
      BY <2>1, <3>1
    <3>3. ~(n < 10) /\ n < 100
      BY <3>2, DecimalLength
    <3>4. Append(<<v>>, d) = <<n \div 10, n % 10>>
      BY <1>2, <2>2, <3>3, DecimalIs
    <3>5. <<v, d>> = <<n \div 10, n % 10>>
      BY <3>4, Appended
    <3>6. v = n \div 10 /\ d = n % 10
      BY <3>5
    <3> QED BY <2>0, <3>3, <3>6
  <2>3. CASE ~(v < 10)
    <3>1. Len(Decimal(v)) \in 2..3 /\ Len(Decimal(n)) \in 1..3
      <4>1. Len(Decimal(v)) \in 1..3 /\ Len(Decimal(n)) \in 1..3 /\ Len(Decimal(v)) # 1
        BY <2>3, DecimalIs, DecimalLength
      <4> QED BY <4>1
    <3>2. Len(Decimal(v)) = 2 /\ Len(Decimal(n)) = 3
      BY <2>1, <3>1
    <3>3. ~(n < 100) /\ v < 100
      BY <3>2, DecimalLength
    <3>4. Append(<<v \div 10, v % 10>>, d) = <<n \div 100, (n \div 10) % 10, n % 10>>
      BY <1>2, <2>3, <3>3, DecimalIs
    <3>5. <<v \div 10, v % 10, d>> = <<n \div 100, (n \div 10) % 10, n % 10>>
      BY <3>4, Appended
    <3>6. v \div 10 = n \div 100 /\ v % 10 = (n \div 10) % 10 /\ d = n % 10
      BY <3>5
    <3> QED BY <1>0, <2>0, <2>3, <3>6
  <2> QED BY <2>2, <2>3
<1>3. ASSUME v = 0 \/ v * 10 + d > 255 PROVE Append(Decimal(v), d) \notin DecimalOctets
  <2>1. ASSUME NEW n \in Octet, Append(Decimal(v), d) = Decimal(n) PROVE FALSE
    <3>1. v # 0 /\ v * 10 + d = n
      BY <1>2, <2>1
    <3>2. n \in 0..255
      BY DEF Octet
    <3>3. ~(n > 255)
      BY <3>2
    <3> QED BY <1>3, <3>1, <3>3
  <2> QED BY <2>1 DEF DecimalOctets
<1> QED BY <1>1, <1>3

\* A number is not empty,
LEMMA EmptyIsNone == <<>> \notin DecimalOctets
<1>1. ASSUME NEW n \in Octet PROVE <<>> # Decimal(n)
  <2>1. Len(Decimal(n)) \in 1..3 /\ Len(<<>>) \notin 1..3
    BY DecimalIs
  <2> QED BY <2>1
<1> QED BY <1>1 DEF DecimalOctets

\* and nothing but digits is in it.
LEMMA NotDecimal ==
  ASSUME NEW s \in Seq(0..9), NEW b, b \notin Int
  PROVE  Append(s, b) \notin DecimalOctets
<1> DEFINE S == 0..9 \cup {b}
           u == Append(s, b)
<1>1. s \in Seq(S) /\ b \in S
  OBVIOUS
<1>2. Len(s) \in Nat /\ Len(u) = Len(s) + 1 /\ u[Len(s) + 1] = b
  <2> HIDE DEF S
  <2> QED BY <1>1, LenProperties, AppendProperties
<1> HIDE DEF u
<1>3. ASSUME NEW n \in Octet, u = Decimal(n) PROVE FALSE
  <2>1. u \in Seq(0..9) /\ Len(u) \in 1..Len(u)
    BY <1>2, <1>3, DecimalIs
  <2>2. u[Len(u)] \in 0..9
    BY <2>1, ElementOfSeq
  <2> QED BY <1>2, <2>2
<1> QED BY <1>3 DEF DecimalOctets, u

-----------------------------------------------------------------------------
(* What is accepted                                                        *)

\* The inductive invariant: octets holds the complete fields, value the one being read.
Follows ==
  outcome = "reading" =>
    /\ Cardinality(Dots(text)) = Len(octets)
    /\ \A k \in 0..(Len(octets) - 1) : Field(text, k) = Decimal(octets[k + 1])
    /\ IF digits = 0 THEN value = 0 /\ Field(text, Len(octets)) = <<>>
       ELSE digits = Len(Decimal(value)) /\ Field(text, Len(octets)) = Decimal(value)

\* Before the first byte nothing has been read of the first field.
LEMMA InitFollows == Init => Follows /\ AcceptsExactly
<1> SUFFICES ASSUME Init PROVE Follows /\ AcceptsExactly
  OBVIOUS
<1>1. text = <<>> /\ octets = <<>> /\ Len(octets) = 0 /\ digits = 0 /\ value = 0 /\ outcome = "reading"
  BY DEF Init
<1>2. DOMAIN text = {}
  BY <1>1
<1>3. Dots(text) = {} /\ Cardinality(Dots(text)) = 0
  <2>1. Dots(text) = {}
    BY <1>2 DEF Dots
  <2> QED BY <2>1, FS_EmptySet
<1>4. Field(text, 0) = <<>>
  <2>1. Place(text, 0) = {}
    BY <1>2 DEF Place
  <2> QED BY <2>1, FieldIs DEF Span
<1>5. \A k \in 0..(0 - 1) : FALSE
  OBVIOUS
<1> QED BY <1>1, <1>3, <1>4, <1>5, LastAssumption DEF Follows, AcceptsExactly, Begins

\* Once the outcome is known nothing is read.
LEMMA Progress ==
  ASSUME TypeOK, Follows, outcome = "reading"
  PROVE  /\ Len(octets) \in 0..Last /\ octets \in Seq(Octet) /\ text \in Seq(Byte)
         /\ \A k \in 0..(Len(octets) - 1) : /\ Field(text, k) = Decimal(octets[k + 1])
                                            /\ Field(text, k) \in DecimalOctets
<1>1. /\ octets \in Seq(Octet) /\ text \in Seq(Byte) /\ Len(octets) <= Last
  BY DEF TypeOK
<1>2. Len(octets) \in Nat
  BY <1>1, LenProperties
<1>3. Len(octets) \in 0..Last
  BY <1>1, <1>2, LastAssumption
<1>4. ASSUME NEW k \in 0..(Len(octets) - 1) PROVE octets[k + 1] \in Octet
  <2>1. k + 1 \in 1..Len(octets)
    BY <1>2
  <2> QED BY <1>1, <2>1, ElementOfSeq
<1> QED BY <1>1, <1>3, <1>4 DEF Follows, DecimalOctets

\* A byte that is let through.
LEMMA TakeFollows ==
  ASSUME TypeOK, Follows, NEW b \in Byte, Read(b), ~Rejects(b)
  PROVE  Follows' /\ AcceptsExactly'
<1>1. PICK c \in 0..Last : c = Len(octets)
  BY Progress DEF Read
<1>2. /\ outcome = "reading" /\ text' = Append(text, b) /\ text \in Seq(Byte) /\ octets \in Seq(Octet)
      /\ Cardinality(Dots(text)) = c
      /\ \A k \in 0..(c - 1) : Field(text, k) = Decimal(octets[k + 1]) /\ Field(text, k) \in DecimalOctets
  BY <1>1, Progress DEF Read, Follows
<1>3. value \in Octet /\ digits \in 0..3
  BY DEF TypeOK, Octet
<1>4. IF digits = 0 THEN value = 0 /\ Field(text, c) = <<>>
      ELSE digits = Len(Decimal(value)) /\ Field(text, c) = Decimal(value)
  BY <1>1, <1>2 DEF Follows
<1>5. CASE b = Dot
  <2>1. octets' = Stored /\ value' = 0 /\ digits' = 0 /\ outcome' = outcome
    <3>1. b \notin Digit
      <4>1. 0..9 \subseteq Int
        OBVIOUS
      <4> QED BY <1>5, <4>1, ByteAssumption
    <3> QED BY <1>2, <1>5, <3>1 DEF Read
  <2>2. digits # 0 /\ c # Last
    BY <1>1, <1>5 DEF Rejects
  <2>3. value % 256 = value
    BY <1>3 DEF Octet
  <2>4. octets' = Append(octets, value)
    BY <2>1, <2>3 DEF Stored
  <2>5. /\ Len(octets') = c + 1 /\ octets'[c + 1] = value
        /\ \A k \in 1..c : octets'[k] = octets[k]
    BY <1>1, <1>2, <1>3, <2>4, AppendProperties
  <2>6. /\ Cardinality(Dots(text')) = c + 1
        /\ \A k \in 0..c : Field(text', k) = Field(text, k)
        /\ Field(text', c + 1) = <<>>
    BY <1>2, <1>5, FieldsGrow
  <2>7. ASSUME NEW k \in 0..c
        PROVE  Field(text', k) = Decimal(octets'[k + 1]) /\ Field(text', k) \in DecimalOctets
    <3>1. CASE k = c
      BY <1>3, <1>4, <2>2, <2>5, <2>6, <3>1 DEF DecimalOctets
    <3>2. CASE k # c
      <4>1. k \in 0..(c - 1) /\ k + 1 \in 1..c
        BY <3>2
      <4> QED BY <1>2, <2>5, <2>6, <4>1
    <3> QED BY <3>1, <3>2
  <2>8. c + 1 - 1 = c /\ c + 1 <= Last
    BY <1>1, <2>2, LastAssumption
  <2>9. Follows'
    BY <2>1, <2>5, <2>6, <2>7, <2>8 DEF Follows
  <2>10. AcceptsExactly'
    BY <1>2, <2>1, <2>6, <2>7, <2>8 DEF AcceptsExactly, Begins
  <2> QED BY <2>9, <2>10
<1>6. CASE b \in Digit
  <2>1. b \in 0..9 /\ b # Dot
    BY <1>6, ByteAssumption
  <2>2. value' = Grown(b) /\ digits' = digits + 1 /\ octets' = octets /\ outcome' = outcome
    BY <1>6, <2>1 DEF Read
  <2>3. Grown(b) = value * 10 + b
    <3>1. value \in Int /\ 0 <= value /\ value <= 255 /\ 0 <= b /\ b <= 9 /\ b \in Int
      BY <1>3, <2>1 DEF Octet
    <3> QED BY <3>1, NoWrap DEF Grown
  <2>4. ~(digits = 1 /\ value = 0) /\ ~(value * 10 + b > 255)
    BY <1>6, <2>1, <2>3 DEF Rejects
  <2>5. /\ Cardinality(Dots(text')) = c
        /\ \A k \in 0..(c - 1) : Field(text', k) = Field(text, k)
        /\ Field(text', c) = Append(Field(text, c), b)
    BY <1>2, <2>1, FieldsGrow
  <2>6. /\ value' \in Octet /\ Field(text', c) = Decimal(value')
        /\ digits' = Len(Decimal(value'))
    <3>1. CASE digits = 0
      <4>1. value' = b /\ b \in Octet /\ b < 10
        BY <1>4, <2>1, <2>2, <2>3, <3>1 DEF Octet
      <4>2. Field(text', c) = <<b>>
        BY <1>4, <2>5, <3>1
      <4>3. Decimal(b) = <<b>> /\ Len(Decimal(b)) = 1
        BY <4>1, DecimalIs, DecimalLength
      <4> QED BY <2>2, <3>1, <4>1, <4>2, <4>3
    <3>2. CASE digits # 0
      <4>1. value # 0
        <5>1. Decimal(0) = <<0>> /\ Len(<<0>>) = 1
          BY DEF Decimal
        <5> QED BY <1>4, <2>4, <3>2, <5>1
      <4>2. value * 10 + b <= 255
        BY <1>3, <2>1, <2>4 DEF Octet
      <4>3. Append(Decimal(value), b) = Decimal(value * 10 + b) /\ value * 10 + b \in Octet
        BY <1>3, <2>1, <4>1, <4>2, DecimalGrows
      <4>4. Len(Append(Decimal(value), b)) = Len(Decimal(value)) + 1
        BY <1>3, <2>1, DecimalIs, AppendProperties
      <4> QED BY <1>4, <2>2, <2>3, <2>5, <3>2, <4>3, <4>4
    <3> QED BY <3>1, <3>2
  <2>7. digits' # 0
    BY <1>3, <2>2
  <2>8. Follows'
    BY <1>1, <1>2, <2>2, <2>5, <2>6, <2>7 DEF Follows
  <2>9. AcceptsExactly'
    <3>1. c <= Last /\ Field(text', c) \in DecimalOctets
      BY <1>1, <2>6, LastAssumption DEF DecimalOctets
    <3> QED BY <1>2, <2>2, <2>5, <3>1 DEF AcceptsExactly, Begins
  <2> QED BY <2>8, <2>9
<1> QED BY <1>5, <1>6 DEF Read

\* A byte that is rejected: no continuation makes the text an address.
LEMMA RejectIsRight ==
  ASSUME TypeOK, Follows, NEW b \in Byte, Read(b), Rejects(b) \/ b \notin Digit \cup {Dot}
  PROVE  Follows' /\ AcceptsExactly'
<1>1. PICK c \in 0..Last : c = Len(octets)
  BY Progress DEF Read
<1>2. /\ outcome = "reading" /\ text' = Append(text, b) /\ text \in Seq(Byte)
      /\ Cardinality(Dots(text)) = c /\ value \in Octet /\ digits \in 0..3
  BY <1>1, Progress DEF Read, Follows, TypeOK, Octet
<1>3. IF digits = 0 THEN value = 0 /\ Field(text, c) = <<>>
      ELSE digits = Len(Decimal(value)) /\ Field(text, c) = Decimal(value)
  BY <1>1, <1>2 DEF Follows
<1>4. outcome' = "rejected"
  BY DEF Read
<1>5. <<>> \notin DecimalOctets
  BY EmptyIsNone
<1>6. ~Begins(text')
  <2>1. CASE b = Dot
    <3>1. /\ Cardinality(Dots(text')) = c + 1
          /\ \A k \in 0..c : Field(text', k) = Field(text, k)
      BY <1>2, <2>1, FieldsGrow
    <3>2. digits = 0 \/ c = Last
      BY <1>1, <2>1, ByteAssumption DEF Rejects
    <3>3. CASE digits = 0
      <4>1. c \in 0..c /\ c \in 0..(c + 1 - 1)
        BY <1>1
      <4> QED BY <1>3, <1>5, <3>1, <3>3, <4>1 DEF Begins
    <3>4. CASE c = Last
      BY <1>1, <3>1, <3>4, LastAssumption DEF Begins
    <3> QED BY <3>2, <3>3, <3>4
  <2>2. CASE b # Dot
    <3>1. Cardinality(Dots(text')) = c /\ Field(text', c) = Append(Field(text, c), b)
      BY <1>2, <2>2, FieldsGrow
    <3>2. Field(text, c) \in Seq(0..9)
      <4>1. <<>> \in Seq(0..9) /\ Decimal(value) \in Seq(0..9)
        BY <1>2, DecimalIs
      <4> QED BY <1>3, <4>1
    <3>3. Append(Field(text, c), b) \notin DecimalOctets
      <4>1. CASE b = Other
        BY <1>5, <3>2, <4>1, NotDecimal, ByteAssumption
      <4>2. CASE b \in Digit
        <5>1. b \in 0..9 /\ Rejects(b)
          BY <4>2, ByteAssumption
        <5>2. Grown(b) = value * 10 + b
          <6>1. value \in Int /\ 0 <= value /\ value <= 255 /\ 0 <= b /\ b <= 9 /\ b \in Int
            BY <1>2, <5>1 DEF Octet
          <6> QED BY <6>1, NoWrap DEF Grown
        <5>3. (digits = 1 /\ value = 0) \/ digits + 1 > 3 \/ value * 10 + b > 255
          BY <2>2, <4>2, <5>1, <5>2 DEF Rejects
        <5>4. digits # 0
          <6>1. digits = 0 => value * 10 + b <= 9
            BY <1>3, <5>1
          <6> QED BY <1>2, <5>1, <5>3, <6>1 DEF Octet
        <5>5. value = 0 \/ value * 10 + b > 255
          <6>1. value \in 0..255
            BY <1>2 DEF Octet
          <6>2. digits + 1 > 3 => digits = 3
            BY <1>2
          <6>3. digits = 3 => ~(value < 100)
            BY <1>2, <1>3, DecimalLength
          <6> QED BY <5>1, <5>3, <6>1, <6>2, <6>3
        <5> QED BY <1>2, <1>3, <5>1, <5>4, <5>5, DecimalGrows
      <4> QED BY <2>2, <4>1, <4>2 DEF Byte
    <3>4. Append(Field(text, c), b) # <<>>
      <4> DEFINE S == 0..9 \cup {b}
      <4>1. Field(text, c) \in Seq(S) /\ b \in S
        BY <3>2
      <4> HIDE DEF S
      <4> QED BY <4>1, AppendProperties
    <3> QED BY <3>1, <3>3, <3>4 DEF Begins
  <2> QED BY <2>1, <2>2
<1> QED BY <1>4, <1>6 DEF Follows, AcceptsExactly

\* The end of the text: it is an address if the last field is there and is not empty.
LEMMA EndIsRight ==
  ASSUME TypeOK, Follows, End
  PROVE  Follows' /\ AcceptsExactly'
<1>1. PICK c \in 0..Last : c = Len(octets)
  BY Progress DEF End
<1>2. /\ outcome = "reading" /\ text' = text /\ octets \in Seq(Octet)
      /\ Cardinality(Dots(text)) = c /\ value \in Octet
      /\ \A k \in 0..(c - 1) : Field(text, k) = Decimal(octets[k + 1]) /\ Field(text, k) \in DecimalOctets
  BY <1>1, Progress DEF End, Follows, TypeOK, Octet
<1>3. IF digits = 0 THEN Field(text, c) = <<>> ELSE Field(text, c) = Decimal(value)
  BY <1>1, <1>2 DEF Follows
<1>4. CASE c # Last \/ digits = 0
  <2>1. outcome' = "incomplete"
    BY <1>1, <1>4 DEF End
  <2>2. ~IsAddress(text)
    <3>1. Last \in 0..Last
      BY LastAssumption
    <3> QED BY <1>2, <1>3, <1>4, <3>1, EmptyIsNone DEF IsAddress
  <2> QED BY <1>2, <2>1, <2>2 DEF Follows, AcceptsExactly
<1>5. CASE c = Last /\ digits # 0
  <2>1. outcome' = "address" /\ octets' = Stored
    BY <1>1, <1>5 DEF End
  <2>2. value % 256 = value
    <3>1. value \in 0..255
      BY <1>2 DEF Octet
    <3> QED BY <3>1
  <2>3. octets' = Append(octets, value)
    BY <2>1, <2>2 DEF Stored
  <2>4. octets'[c + 1] = value /\ \A k \in 1..c : octets'[k] = octets[k]
    BY <1>1, <1>2, <2>3, AppendProperties
  <2>5. ASSUME NEW k \in 0..Last
        PROVE  Field(text, k) = Decimal(octets'[k + 1]) /\ Field(text, k) \in DecimalOctets
    <3>1. CASE k = c
      BY <1>2, <1>3, <1>5, <2>4, <3>1 DEF DecimalOctets
    <3>2. CASE k # c
      <4>1. k \in 0..(c - 1) /\ k + 1 \in 1..c
        BY <1>5, <3>2, LastAssumption
      <4> QED BY <1>2, <2>4, <4>1
    <3> QED BY <3>1, <3>2
  <2>6. IsAddress(text)
    BY <1>2, <1>5, <2>5 DEF IsAddress
  <2> QED BY <1>2, <2>1, <2>5, <2>6 DEF Follows, AcceptsExactly
<1> QED BY <1>4, <1>5

\* For every set of digits and any number of octets: the fast path accepts a text exactly
\* if it is an address in strict dotted decimal, and rejects one only when no continuation
\* could make it one.
THEOREM AcceptsExactlyAddresses == Spec => []AcceptsExactly
<1>1. TypeOK /\ Follows /\ AcceptsExactly /\ [Next]_vars => Follows' /\ AcceptsExactly'
  <2> SUFFICES ASSUME TypeOK, Follows, AcceptsExactly, [Next]_vars PROVE Follows' /\ AcceptsExactly'
    OBVIOUS
  <2>1. CASE End
    BY <2>1, EndIsRight
  <2>2. ASSUME NEW b \in Byte, Read(b) PROVE Follows' /\ AcceptsExactly'
    BY <2>2, TakeFollows, RejectIsRight
  <2>3. CASE UNCHANGED vars
    BY <2>3 DEF vars, Follows, AcceptsExactly
  <2> QED BY <2>1, <2>2, <2>3 DEF Next
<1> QED BY <1>1, InitFollows, InBounds, PTL DEF Spec
=============================================================================
