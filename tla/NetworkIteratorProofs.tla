----------------------- MODULE NetworkIteratorProofs -----------------------
(***************************************************************************)
(* A shared iterator hands out every network once, in order, and says that *)
(* it is over only when it is: for any number of threads and networks.     *)
(*                                                                         *)
(* The exclusive borrow is the whole argument: between BorrowMut and       *)
(* Return only one thread moves the position, the network it converts is   *)
(* the last one handed out, and all others were received or reported.      *)
(***************************************************************************)
EXTENDS NetworkIterator, TLAPS

\* Only the writer is inside next().
Exclusive ==
  \A t \in Thread : pc[t] \in {"find", "take", "convert", "stop"} => writer = t

\* The network in hand is the next one, or the one at the position; nobody received it.
InHand ==
  \A t \in Thread :
    /\ pc[t] = "take" => item[t] = position + 1 /\ item[t] \in 1 .. Size
    /\ pc[t] = "convert" =>
         /\ item[t] = position /\ item[t] \in 1 .. Size
         /\ \A u \in Thread : position \notin GivenTo(u)

\* What was received lies behind the position.
Behind == \A t \in Thread : \A k \in GivenTo(t) : k <= position

\* The end is told at the end.
AtEnd == \A t \in Thread : pc[t] = "stop" => position = Size

Inv == TypeOK /\ Exclusive /\ InHand /\ Behind /\ AtEnd /\ OnceInOrder /\ NothingLost

\* What a thread received are networks of the database.
LEMMA GivenRange ==
  ASSUME TypeOK, NEW u \in Thread
  PROVE  /\ \A k \in DOMAIN given[u] : given[u][k] \in GivenTo(u)
         /\ GivenTo(u) \subseteq 1 .. Size
<1>1. given[u] \in Seq(1 .. Size)
  BY DEF TypeOK
<1>2. \A k \in DOMAIN given[u] : given[u][k] \in 1 .. Size
  <2>1. ASSUME NEW S, NEW s \in Seq(S), NEW k \in DOMAIN s PROVE s[k] \in S
    OBVIOUS
  <2> QED
    BY <1>1, <2>1
<1>3. \A k \in DOMAIN given[u] : given[u][k] \in GivenTo(u)
  BY Zenon DEF GivenTo
<1>4. \A n \in GivenTo(u) : \E k \in DOMAIN given[u] : n = given[u][k]
  BY Zenon DEF GivenTo
<1> QED
  BY <1>2, <1>3, <1>4

\* A thread receives a network: its list grows by one.
LEMMA GivenGrows ==
  ASSUME TypeOK, NEW t \in Thread, NEW n \in 1 .. Size,
         given' = [given EXCEPT ![t] = Append(@, n)]
  PROVE  /\ given' \in [Thread -> Seq(1 .. Size)]
         /\ GivenTo(t)' = GivenTo(t) \cup {n}
         /\ \A u \in Thread \ {t} : given'[u] = given[u] /\ GivenTo(u)' = GivenTo(u)
         /\ DOMAIN given'[t] = DOMAIN given[t] \cup {Len(given[t]) + 1}
         /\ \A k \in DOMAIN given[t] : given'[t][k] = given[t][k] /\ k < Len(given[t]) + 1
         /\ given'[t][Len(given[t]) + 1] = n
<1>1. given[t] \in Seq(1 .. Size) /\ given'[t] = Append(given[t], n)
  BY DEF TypeOK
<1>2. /\ DOMAIN given'[t] = DOMAIN given[t] \cup {Len(given[t]) + 1}
      /\ \A k \in DOMAIN given[t] : given'[t][k] = given[t][k] /\ k < Len(given[t]) + 1
      /\ given'[t][Len(given[t]) + 1] = n
  BY <1>1
<1>3. GivenTo(t)' = GivenTo(t) \cup {n}
  <2>1. GivenTo(t)' = {given'[t][k] : k \in DOMAIN given[t] \cup {Len(given[t]) + 1}}
    BY <1>2 DEF GivenTo
  <2>2. {given'[t][k] : k \in DOMAIN given[t]} = {given[t][k] : k \in DOMAIN given[t]}
    BY <1>2
  <2> QED
    BY <1>2, <2>1, <2>2 DEF GivenTo
<1>4. \A u \in Thread \ {t} : given'[u] = given[u] /\ GivenTo(u)' = GivenTo(u)
  BY DEF GivenTo, TypeOK
<1>5. given' \in [Thread -> Seq(1 .. Size)]
  BY <1>1 DEF TypeOK
<1> QED
  BY <1>2, <1>3, <1>4, <1>5

\* Every step keeps the types.
LEMMA TypedStep ==
  ASSUME TypeOK, InHand, NEW t \in Thread, Call(t) \/ Step(t)
  PROVE  TypeOK'
<1> USE DEF TypeOK, Label, Goto
<1>1. CASE Call(t)
  BY <1>1 DEF Call
<1>2. CASE BorrowMut(t)
  BY <1>2 DEF BorrowMut
<1>3. CASE Borrow(t)
  BY <1>3 DEF Borrow
<1>4. CASE Find(t)
  <2>1. position # Size => position + 1 \in 0 .. Size
    BY SizeAssumption
  <2> QED
    BY <1>4, <2>1 DEF Find
<1>7. CASE Take(t)
  <2>1. item[t] \in 1 .. Size /\ Size \in Nat
    BY <1>7, SizeAssumption DEF Take, InHand
  <2>2. position' \in 0 .. Size /\ failed' \subseteq 1 .. Size
    BY <1>7, <2>1 DEF Take
  <2> QED
    BY <1>7, <2>2 DEF Take
<1>5. CASE Convert(t)
  <2>1. item[t] \in 1 .. Size /\ UNCHANGED <<position, writer, readers, item>>
    BY <1>5, SizeAssumption DEF Convert, InHand
  <2>2. given' \in [Thread -> Seq(1 .. Size)] /\ failed' \subseteq 1 .. Size
    <3>1. CASE given' = [given EXCEPT ![t] = Append(@, item[t])] /\ UNCHANGED failed
      BY <2>1, <3>1, GivenGrows
    <3>2. CASE failed' = failed \cup {item[t]} /\ UNCHANGED given
      BY <2>1, <3>2
    <3> QED
      BY <1>5, <3>1, <3>2 DEF Convert
  <2>3. pc' \in [Thread -> Label]
    BY <1>5 DEF Convert
  <2> QED
    BY <2>1, <2>2, <2>3
<1>6. CASE Return(t)
  BY <1>6, SizeAssumption DEF Return
<1> QED
  BY <1>1, <1>2, <1>3, <1>4, <1>5, <1>6, <1>7 DEF Step

\* Taking and giving back borrows: only one thread at a time has the exclusive one.
LEMMA ExclusiveStep ==
  ASSUME TypeOK, Exclusive, NEW t \in Thread, Call(t) \/ Step(t)
  PROVE  Exclusive'
<1> USE ThreadAssumption DEF TypeOK, Exclusive, Goto
<1>1. CASE Call(t)
  BY <1>1 DEF Call
<1>2. CASE BorrowMut(t)
  BY <1>2 DEF BorrowMut
<1>3. CASE Borrow(t)
  BY <1>3 DEF Borrow
<1>4. CASE Find(t)
  BY <1>4 DEF Find
<1>7. CASE Take(t)
  BY <1>7 DEF Take
<1>5. CASE Convert(t)
  BY <1>5 DEF Convert
<1>6. CASE Return(t)
  BY <1>6 DEF Return
<1> QED
  BY <1>1, <1>2, <1>3, <1>4, <1>5, <1>6, <1>7 DEF Step

\* Nobody else is inside next() while t is.
LEMMA Alone ==
  ASSUME Exclusive, NEW t \in Thread, pc[t] \in {"find", "take", "convert"},
         NEW u \in Thread, u # t
  PROVE  pc[u] \notin {"find", "take", "convert", "stop"}
BY DEF Exclusive

\* Steps that do not touch what was handed out.
LEMMA QuietStep ==
  ASSUME Inv, NEW t \in Thread,
         Call(t) \/ BorrowMut(t) \/ Borrow(t) \/ Find(t) \/ Return(t)
  PROVE  InHand' /\ Behind' /\ AtEnd' /\ OnceInOrder' /\ NothingLost'
<1>1. UNCHANGED <<position, given, failed>>
  BY DEF Call, BorrowMut, Borrow, Find, Return
<1>2. \A u \in Thread : GivenTo(u)' = GivenTo(u)
  BY <1>1 DEF GivenTo
<1>3. \A u \in Thread :
        /\ pc[u] = "convert" <=> pc'[u] = "convert"
        /\ pc[u] = "convert" => item'[u] = item[u]
  BY DEF Inv, TypeOK, Goto, Call, BorrowMut, Borrow, Find, Return
<1>4. \A u \in Thread :
        /\ pc'[u] = "take" => \/ pc[u] = "take" /\ item'[u] = item[u]
                              \/ item'[u] = position + 1 /\ position # Size
        /\ pc'[u] = "stop" => pc[u] = "stop" \/ position = Size
  BY DEF Inv, TypeOK, Goto, Call, BorrowMut, Borrow, Find, Return
<1>5. InHand'
  <2>1. position # Size => position + 1 \in 1 .. Size
    BY SizeAssumption DEF Inv, TypeOK
  <2> QED
    BY <1>1, <1>2, <1>3, <1>4, <2>1 DEF Inv, InHand
<1>6. Behind' /\ AtEnd'
  BY <1>1, <1>2, <1>4 DEF Inv, Behind, AtEnd
<1>7. OnceInOrder'
  BY <1>1, <1>2 DEF Inv, OnceInOrder
<1>8. NothingLost'
  BY <1>1, <1>2, <1>3 DEF Inv, NothingLost
<1> QED
  BY <1>5, <1>6, <1>7, <1>8

\* The walk moves on: the next network is reported, or it is in hand.
LEMMA TakeStep ==
  ASSUME Inv, NEW t \in Thread, Take(t)
  PROVE  InHand' /\ Behind' /\ AtEnd' /\ OnceInOrder' /\ NothingLost'
<1>1. /\ TypeOK /\ Exclusive /\ InHand /\ Behind /\ AtEnd /\ OnceInOrder /\ NothingLost
      /\ pc[t] = "take" /\ UNCHANGED <<given, item>>
      /\ \A u \in Thread \ {t} : pc'[u] = pc[u]
  BY DEF Inv, Take, Goto, TypeOK
<1>2. \A u \in Thread : GivenTo(u)' = GivenTo(u)
  BY <1>1 DEF GivenTo
<1>3. \A u \in Thread \ {t} : pc'[u] \notin {"take", "convert", "stop"}
  BY <1>1, Alone
<1>4. OnceInOrder'
  BY <1>1, <1>2 DEF OnceInOrder
<1>5. /\ position \in Nat /\ position' = position + 1
      /\ item'[t] = position + 1 /\ item[t] = position + 1 /\ item[t] \in 1 .. Size
  BY <1>1, SizeAssumption DEF InHand, TypeOK, Take
<1>6. \A u \in Thread : \A k \in GivenTo(u) : k \in Nat /\ k <= position
  <2>1. ASSUME NEW u \in Thread PROVE GivenTo(u) \subseteq 1 .. Size
    BY <1>1, GivenRange
  <2> QED
    BY <1>1, <2>1, SizeAssumption DEF Behind
<1>7. Behind'
  BY <1>2, <1>5, <1>6 DEF Behind
<1>8. CASE pc'[t] = "return" /\ failed' = failed \cup {position + 1}
  <2>1. InHand' /\ AtEnd'
    BY <1>3, <1>8 DEF InHand, AtEnd
  <2>2. NothingLost'
    BY <1>1, <1>2, <1>5, <1>8 DEF NothingLost
  <2> QED
    BY <1>4, <1>7, <2>1, <2>2
<1>9. CASE pc'[t] = "convert" /\ UNCHANGED failed
  <2>1. \A u \in Thread : position' \notin GivenTo(u)'
    BY <1>2, <1>5, <1>6
  <2>2. InHand' /\ AtEnd'
    BY <1>1, <1>3, <1>5, <1>9, <2>1 DEF InHand, AtEnd
  <2>3. NothingLost'
    BY <1>1, <1>2, <1>5, <1>9 DEF NothingLost
  <2> QED
    BY <1>4, <1>7, <2>2, <2>3
<1> QED
  BY <1>1, <1>5, <1>8, <1>9 DEF Take, Goto, TypeOK

\* The network in hand is received or reported.
LEMMA ConvertStep ==
  ASSUME Inv, NEW t \in Thread, Convert(t)
  PROVE  InHand' /\ Behind' /\ AtEnd' /\ OnceInOrder' /\ NothingLost'
<1>1. /\ TypeOK /\ Exclusive /\ InHand /\ Behind /\ AtEnd /\ OnceInOrder /\ NothingLost
      /\ pc[t] = "convert" /\ pc'[t] = "return" /\ UNCHANGED position
      /\ \A u \in Thread \ {t} : pc'[u] = pc[u]
  BY DEF Inv, Convert, Goto, TypeOK
<1>2. \A u \in Thread \ {t} : pc[u] \notin {"take", "convert", "stop"}
  BY <1>1, Alone
<1>3. InHand' /\ AtEnd'
  BY <1>1, <1>2 DEF InHand, AtEnd
<1>4. item[t] = position /\ position \in 1 .. Size /\ Size \in Nat
      /\ \A u \in Thread : position \notin GivenTo(u)
  BY <1>1, SizeAssumption DEF InHand, TypeOK
<1>5. CASE failed' = failed \cup {position} /\ UNCHANGED given
  <2>1. \A u \in Thread : GivenTo(u)' = GivenTo(u)
    BY <1>5 DEF GivenTo
  <2>2. Behind'
    BY <1>1, <2>1 DEF Behind
  <2>3. OnceInOrder'
    BY <1>1, <1>5, <2>1 DEF OnceInOrder
  <2>4. NothingLost'
    BY <1>1, <1>2, <1>4, <1>5, <2>1 DEF NothingLost
  <2> QED
    BY <1>3, <2>2, <2>3, <2>4
<1>6. CASE given' = [given EXCEPT ![t] = Append(@, position)] /\ UNCHANGED failed
  <2>1. /\ GivenTo(t)' = GivenTo(t) \cup {position}
        /\ \A u \in Thread \ {t} : given'[u] = given[u] /\ GivenTo(u)' = GivenTo(u)
        /\ DOMAIN given'[t] = DOMAIN given[t] \cup {Len(given[t]) + 1}
        /\ \A k \in DOMAIN given[t] : given'[t][k] = given[t][k] /\ k < Len(given[t]) + 1
        /\ given'[t][Len(given[t]) + 1] = position
    BY <1>1, <1>4, <1>6, GivenGrows
  <2>2. Behind'
    BY <1>1, <1>4, <2>1 DEF Behind
  <2>3. \A j, k \in DOMAIN given'[t] : j < k => given'[t][j] < given'[t][k]
    <3>1. \A j \in DOMAIN given[t] : given[t][j] \in Nat /\ given[t][j] < position
      <4>1. \A j \in DOMAIN given[t] : given[t][j] \in GivenTo(t) /\ given[t][j] \in 1 .. Size
        BY <1>1, GivenRange
      <4> QED
        BY <1>1, <1>4, <4>1 DEF Behind
    <3>2. Len(given[t]) \in Nat /\ DOMAIN given[t] = 1 .. Len(given[t])
      BY <1>1 DEF TypeOK
    <3> QED
      BY <1>1, <2>1, <3>1, <3>2 DEF OnceInOrder
  <2>4. \A u \in Thread \ {t} : \A j, k \in DOMAIN given'[u] : j < k => given'[u][j] < given'[u][k]
    BY <1>1, <2>1 DEF OnceInOrder
  <2>5. \A u, v \in Thread : u # v => GivenTo(u)' \cap GivenTo(v)' = {}
    BY <1>1, <1>4, <2>1 DEF OnceInOrder
  <2>6. OnceInOrder'
    BY <2>3, <2>4, <2>5 DEF OnceInOrder
  <2>7. NothingLost'
    BY <1>1, <1>2, <1>4, <1>6, <2>1 DEF NothingLost
  <2> QED
    BY <1>3, <2>2, <2>6, <2>7
<1> QED
  BY <1>4, <1>5, <1>6 DEF Convert

\* The invariant holds at first, and every step keeps it.
LEMMA Invariance == Spec => []Inv
<1>1. Init => Inv
  <2> SUFFICES ASSUME Init PROVE Inv
    OBVIOUS
  <2>1. TypeOK
    BY SizeAssumption DEF Init, TypeOK, Label
  <2>2. \A t \in Thread : GivenTo(t) = {}
    BY DEF Init, GivenTo
  <2>3. Exclusive /\ InHand /\ Behind /\ AtEnd
    BY <2>2 DEF Init, Exclusive, InHand, Behind, AtEnd
  <2>4. OnceInOrder /\ NothingLost
    BY <2>2 DEF Init, OnceInOrder, NothingLost
  <2> QED
    BY <2>1, <2>3, <2>4 DEF Inv
<1>2. Inv /\ [Next]_vars => Inv'
  <2> SUFFICES ASSUME Inv, [Next]_vars PROVE Inv'
    OBVIOUS
  <2>1. ASSUME NEW t \in Thread, Call(t) \/ Step(t) PROVE Inv'
    <3>1. TypeOK' /\ Exclusive'
      BY <2>1, TypedStep, ExclusiveStep DEF Inv
    <3>2. InHand' /\ Behind' /\ AtEnd' /\ OnceInOrder' /\ NothingLost'
      BY <2>1, QuietStep, TakeStep, ConvertStep DEF Step
    <3> QED
      BY <3>1, <3>2 DEF Inv
  <2>2. CASE UNCHANGED vars
    <3>1. \A u \in Thread : GivenTo(u)' = GivenTo(u)
      BY <2>2 DEF vars, GivenTo
    <3>2. TypeOK' /\ Exclusive'
      BY <2>2 DEF vars, Inv, TypeOK, Exclusive
    <3>3. InHand' /\ Behind' /\ AtEnd'
      BY <2>2, <3>1 DEF vars, Inv, InHand, Behind, AtEnd
    <3>4. OnceInOrder' /\ NothingLost'
      BY <2>2, <3>1 DEF vars, Inv, OnceInOrder, NothingLost
    <3> QED
      BY <3>2, <3>3, <3>4 DEF Inv
  <2> QED
    BY <2>1, <2>2 DEF Next
<1> QED
  BY <1>1, <1>2, PTL DEF Spec

\* Every variable has its type, the position in the database included.
THEOREM TypeCorrect == Spec => []TypeOK
BY Invariance, PTL DEF Inv

\* Each thread receives its networks in the order of the database, and no network is
\* received twice, whoever shares the iterator.
THEOREM ReceivedOnceInOrder == Spec => []OnceInOrder
BY Invariance, PTL DEF Inv

\* A network the walk has passed was received, reported, or is being converted.
THEOREM NoNetworkDisappears == Spec => []NothingLost
BY Invariance, PTL DEF Inv

\* A call that is told the end is told it when everything was received or reported.
THEOREM EndIsTheEnd == Spec => []StopMeansAll
<1>1. Inv => StopMeansAll
  <2> SUFFICES ASSUME Inv, NEW t \in Thread, pc[t] = "stop"
               PROVE  1 .. Size = failed \cup UNION {GivenTo(u) : u \in Thread}
    BY DEF StopMeansAll
  <2>1. \A u \in Thread : pc[u] # "convert"
    BY DEF Inv, Exclusive
  <2>2. position = Size
    BY DEF Inv, AtEnd
  <2>3. \A k \in 1 .. Size : k \in failed \/ \E u \in Thread : k \in GivenTo(u)
    BY <2>1, <2>2 DEF Inv, NothingLost
  <2>4. failed \subseteq 1 .. Size /\ \A u \in Thread : GivenTo(u) \subseteq 1 .. Size
    BY GivenRange DEF Inv, TypeOK
  <2> QED
    BY <2>3, <2>4
<1> QED
  BY <1>1, Invariance, PTL
=============================================================================
