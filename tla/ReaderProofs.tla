---------------------------- MODULE ReaderProofs ----------------------------
(***************************************************************************)
(* Proofs about Reader for every finite set of threads and iterators,      *)
(* every database and every batch: types, exact reference counts, no use   *)
(* of the source after it is unmapped, exclusive iteration, and what       *)
(* close() means for the calls around it.                                  *)
(***************************************************************************)
EXTENDS Reader, FiniteSetTheorems, SequenceTheorems, TLAPS

\* TypeOK without the count, whose range follows from CountExact.
Typed ==
  /\ slot \in BOOLEAN /\ mapped \in BOOLEAN /\ gone \in BOOLEAN
  /\ leases \subseteq Thread \cup Iter
  /\ borrower \in [Iter -> Thread \cup {None}]
  /\ pc \in [Thread -> Label]
  /\ call \in [Thread -> Frame]
  /\ ret \in [Thread -> Result]

IInv == Typed /\ CountExact /\ ControlInv /\ OwnerInv /\ IterInv /\ LateInv

\* The initial state satisfies the invariant.
LEMMA InitInv == Init => IInv
<1> SUFFICES ASSUME Init PROVE IInv
  OBVIOUS
<1>1. Idle \in Frame /\ NoRet \in Result
  BY DEF Idle, NewFrame, NoRet, Frame, Result, Tag
<1>2. Typed
  BY <1>1 DEF Init, Typed, Label
<1>3. CountExact
  BY FS_EmptySet DEF Init, CountExact
<1>4. ControlInv /\ OwnerInv /\ IterInv /\ LateInv
  BY DEF Init, ControlInv, ControlOf, OwnerInv, OwnerOf, IterInv, IterOf, LateInv, LateOf, Idle, NewFrame, NoRet, ToldClosed, Single, Batch
<1> QED BY <1>2, <1>3, <1>4 DEF IInv

\* The owners are finitely many, so counting them is meaningful.
LEMMA FiniteLeases ==
  ASSUME Typed
  PROVE  IsFiniteSet(leases) /\ Cardinality(leases) \in Nat
<1>1. IsFiniteSet(Thread \cup Iter)
  BY ClientsAssumption, FS_Union
<1> QED BY <1>1, FS_Subset, FS_CardinalityType DEF Typed

\* An exact count is a number of owners, so never negative.
LEMMA CountIsNatural ==
  ASSUME Typed, CountExact
  PROVE  strong \in Nat
<1>1. Cardinality(leases) \in Nat
  BY FiniteLeases
<1>2. CASE slot
  BY <1>1, <1>2 DEF CountExact
<1>3. CASE ~slot
  BY <1>1, <1>3 DEF CountExact
<1> QED BY <1>2, <1>3

\* Dropping an owner keeps the count exact.
LEMMA ReleaseExact ==
  ASSUME NEW c, Typed, CountExact, Release(c), UNCHANGED slot
  PROVE  CountExact'
<1>1. IsFiniteSet(leases) /\ Cardinality(leases) \in Nat
  BY FiniteLeases
<1>2. CASE c \in leases
  <2>1. /\ IsFiniteSet(leases \ {c})
        /\ Cardinality(leases \ {c}) = Cardinality(leases) - 1
        /\ Cardinality(leases \ {c}) \in Nat
    BY <1>1, <1>2, FS_RemoveElement, FS_CardinalityType
  <2> QED BY <1>1, <1>2, <2>1 DEF CountExact, Release, Typed
<1>3. CASE c \notin leases
  <2>1. leases' = leases
    BY <1>3 DEF Release
  <2> QED BY <1>1, <1>3, <2>1 DEF CountExact, Release, Typed
<1> QED BY <1>2, <1>3

\* Every step keeps the count exact.
LEMMA CountStep == IInv /\ [Next]_vars => CountExact'
<1> SUFFICES ASSUME IInv, [Next]_vars PROVE CountExact'
  OBVIOUS
<1> USE DEF IInv
<1>0. IsFiniteSet(leases) /\ Cardinality(leases) \in Nat
  BY FiniteLeases
<1>1. CASE UNCHANGED <<slot, strong, mapped, leases>>
  BY <1>1 DEF CountExact
<1>2. ASSUME NEW t \in Thread, Load(t) PROVE CountExact'
  <2>1. t \notin leases
    BY <1>2 DEF Load, OwnerInv, OwnerOf
  <2>2. CASE UNCHANGED <<strong, leases>>
    BY <1>2, <2>2 DEF Load, CountExact
  <2>3. CASE Acquire(t)
    <3>1. Cardinality(leases \cup {t}) = Cardinality(leases) + 1
      BY <1>0, <2>1, FS_AddElement
    <3> QED BY <1>0, <1>2, <2>3, <3>1 DEF Load, Acquire, CountExact, Typed
  <2> QED BY <1>2, <2>2, <2>3 DEF Load
<1>3. ASSUME NEW t \in Thread, Store(t) PROVE CountExact'
  <2>1. t \notin leases
    BY <1>3 DEF Store, OwnerInv, OwnerOf
  <2>2. Cardinality(leases \cup {t}) = Cardinality(leases) + 1
    BY <1>0, <2>1, FS_AddElement
  <2> QED BY <1>0, <1>3, <2>2 DEF Store, CountExact, Typed
<1>4. ASSUME NEW t \in Thread, Build(t) PROVE CountExact'
  <2>1. t \in leases
    BY <1>4 DEF Build, OwnerInv, OwnerOf
  <2>2. CASE UNCHANGED leases
    BY <1>4, <2>2 DEF Build, CountExact
  <2>3. ASSUME NEW i \in Iter \ leases, leases' = (leases \ {t}) \cup {i} PROVE CountExact'
    <3>1. /\ IsFiniteSet(leases \ {t})
          /\ Cardinality(leases \ {t}) = Cardinality(leases) - 1
      BY <1>0, <2>1, FS_RemoveElement
    <3>2. i \notin leases \ {t}
      BY <2>3
    <3>3. Cardinality((leases \ {t}) \cup {i}) = Cardinality(leases \ {t}) + 1
      BY <3>1, <3>2, FS_AddElement
    <3>4. Cardinality((leases \ {t}) \cup {i}) = Cardinality(leases)
      BY <1>0, <3>1, <3>3
    <3> QED BY <1>4, <2>3, <3>4 DEF Build, CountExact
  <2> QED BY <1>4, <2>2, <2>3 DEF Build
<1>5. ASSUME NEW t \in Thread, Finish(t) PROVE CountExact'
  BY <1>5, ReleaseExact DEF Finish
<1>6. ASSUME NEW i \in Iter, DropIter(i) PROVE CountExact'
  BY <1>6, ReleaseExact DEF DropIter
<1>7. CASE DropReader
  BY <1>0, <1>7 DEF DropReader, CountExact, Typed
<1>8. ASSUME NEW t \in Thread,
             Call(t) \/ ParseIp(t) \/ ParsePath(t) \/ Check(t) \/ Iterate(t) \/ NextItem(t)
               \/ Lookup(t) \/ Copy(t) \/ Peek(t) \/ Borrow(t) \/ Advance(t) \/ Convert(t)
      PROVE  UNCHANGED <<slot, strong, mapped, leases>>
  BY <1>8 DEF Call, ParseIp, ParsePath, Check, Iterate, NextItem, Lookup, Copy, Peek, Borrow,
              Advance, Convert, source
<1>9. CASE UNCHANGED vars \/ Over
  BY <1>9, <1>1 DEF vars, source, Over
<1> QED
  BY <1>1, <1>2, <1>3, <1>4, <1>5, <1>6, <1>7, <1>8, <1>9 DEF Next, Step

\* Every step keeps the types.
LEMMA TypedStep == IInv /\ [Next]_vars => Typed'
<1> SUFFICES ASSUME Typed, CountExact, ControlInv, [Next]_vars PROVE Typed'
  BY DEF IInv
<1> USE DEF Typed
<1>0. <<>> \in Seq(Ip \cup Iter \cup {None})
  OBVIOUS
<1>1. ASSUME NEW t \in Thread, NEW label \in Label, Goto(t, label)
      PROVE  pc' \in [Thread -> Label] /\ ret' \in [Thread -> Result]
  BY <1>1 DEF Goto
<1>2. ASSUME NEW t \in Thread, NEW tag \in Tag,
             NEW vals \in Seq(Ip \cup Iter \cup {None}), Done(t, tag, vals)
      PROVE  pc' \in [Thread -> Label] /\ ret' \in [Thread -> Result]
  BY <1>2 DEF Done, Label, Result
<1>3. ASSUME NEW t \in Thread, NEW tag \in Tag, Raise(t, tag)
      PROVE  pc' \in [Thread -> Label] /\ ret' \in [Thread -> Result]
  BY <1>0, <1>2, <1>3 DEF Raise
<1>4. ASSUME NEW t \in Thread, Call(t) PROVE Typed'
  <2>1. PICK m \in Method, i \in Iter \cup {None} :
          /\ call' = [call EXCEPT ![t] = NewFrame(m, i, IF slot THEN "open" ELSE "closed")]
          /\ Goto(t, Entry(m))
    BY <1>4 DEF Call
  <2>2. NewFrame(m, i, IF slot THEN "open" ELSE "closed") \in Frame
    BY DEF NewFrame, Frame
  <2>3. Entry(m) \in Label
    BY MethodAssumption DEF Entry, Label, Single, Batch
  <2>4. call' \in [Thread -> Frame]
    BY <2>1, <2>2
  <2> QED BY <1>1, <1>4, <2>1, <2>3, <2>4 DEF Call, source
<1>5. ASSUME NEW t \in Thread, ParseIp(t) PROVE Typed'
  <2>1. CASE Raise(t, "bad_ip") /\ UNCHANGED call
    BY <1>3, <1>5, <2>1 DEF ParseIp, source, Tag
  <2>2. CASE Raise(t, "wrong_family") /\ UNCHANGED call
    BY <1>3, <1>5, <2>2 DEF ParseIp, source, Tag
  <2>3. ASSUME NEW ip \in Ip, call' = [call EXCEPT ![t].fed = Append(@, ip)],
               NEW label \in Label, Goto(t, label)
        PROVE  Typed'
    <3>1. call[t] \in Frame /\ call[t].fed \in Seq(Ip)
      BY DEF Frame
    <3>2. Append(call[t].fed, ip) \in Seq(Ip)
      BY <3>1, AppendProperties
    <3>3. call' \in [Thread -> Frame]
      BY <2>3, <3>1, <3>2 DEF Frame
    <3> QED BY <1>1, <1>5, <2>3, <3>3 DEF ParseIp, source
  <2> QED BY <1>5, <2>1, <2>2, <2>3 DEF ParseIp, Ip, Label
<1>6. ASSUME NEW t \in Thread, ParsePath(t) \/ Check(t) \/ Iterate(t) PROVE Typed'
  <2>1. UNCHANGED <<source, borrower, call>>
    BY <1>6 DEF ParsePath, Check, Iterate
  <2>2. ASSUME NEW label \in Label, Goto(t, label) PROVE Typed'
    BY <1>1, <2>1, <2>2 DEF source
  <2>3. ASSUME NEW tag \in Tag, Raise(t, tag) PROVE Typed'
    BY <1>3, <2>1, <2>3 DEF source
  <2> QED BY <1>6, <2>2, <2>3 DEF ParsePath, Check, Iterate, Label, Tag
<1>7. ASSUME NEW t \in Thread, NextItem(t) PROVE Typed'
  <2>1. call[t].objects \in Seq(Ip \cup Iter \cup {None})
    BY SeqMonotonic DEF Frame
  <2> QED BY <1>1, <1>2, <1>3, <1>7, <2>1 DEF NextItem, source, Label, Tag
<1>8. ASSUME NEW t \in Thread, Load(t) PROVE Typed'
  <2>1. CASE Acquire(t) /\ Goto(t, AfterLoad(call[t].method))
    <3>1. AfterLoad(call[t].method) \in Label
      BY <1>8 DEF Load, ControlInv, ControlOf, AfterLoad, Label, Single, Batch
    <3> QED BY <1>1, <1>8, <2>1, <3>1 DEF Load, Acquire
  <2>2. CASE Raise(t, IF call[t].method = "metadata" THEN "closed_os" ELSE "closed")
    BY <1>3, <1>8, <2>2 DEF Load, Acquire, Raise, Done, Goto, Tag
  <2> QED BY <1>8, <2>1, <2>2 DEF Load
<1>9. ASSUME NEW t \in Thread, Lookup(t) PROVE Typed'
  <2>1. Record(Current(t)) \in Ip \cup {None}
    <3>1. call[t].fed \in Seq(Ip) /\ call[t].fed # <<>>
      BY <1>9 DEF Lookup, ControlInv, ControlOf, Frame
    <3>2. Current(t) \in Ip
      BY <3>1, ElementOfSeq, EmptySeq, LenProperties DEF Current
    <3> QED BY <3>2 DEF Record
  <2>2. CASE Raise(t, "bad_data") /\ UNCHANGED call
    BY <1>3, <1>9, <2>2 DEF Lookup, source, Tag
  <2>3. CASE Done(t, "ok", <<Record(Current(t))>>) /\ UNCHANGED call
    <3>1. <<Record(Current(t))>> \in Seq(Ip \cup Iter \cup {None})
      BY <2>1
    <3> QED BY <1>2, <1>9, <2>3, <3>1 DEF Lookup, source, Tag
  <2>4. CASE /\ call' = [call EXCEPT ![t].objects = Append(@, Record(Current(t)))]
             /\ Goto(t, "items")
    <3>1. Append(call[t].objects, Record(Current(t))) \in Seq(Ip \cup {None})
      BY <2>1, AppendProperties DEF Frame
    <3>2. call' \in [Thread -> Frame]
      BY <2>4, <3>1 DEF Frame
    <3> QED BY <1>1, <1>9, <2>4, <3>2 DEF Lookup, source, Label
  <2> QED BY <1>9, <2>2, <2>3, <2>4 DEF Lookup
<1>10. ASSUME NEW t \in Thread, Copy(t) \/ Peek(t) PROVE Typed'
  <2>1. UNCHANGED <<source, borrower, call>>
    BY <1>10 DEF Copy, Peek
  <2>2. ASSUME NEW tag \in Tag, Done(t, tag, <<>>) PROVE Typed'
    BY <1>0, <1>2, <2>1, <2>2 DEF source
  <2> QED BY <1>10, <2>2 DEF Copy, Peek, Tag
<1>11. ASSUME NEW t \in Thread, Store(t) PROVE Typed'
  <2>1. pc' \in [Thread -> Label] /\ ret' \in [Thread -> Result]
    BY <1>0, <1>2, <1>11 DEF Store, Tag
  <2> QED BY <1>11, <2>1 DEF Store
<1>12. ASSUME NEW t \in Thread, Build(t) PROVE Typed'
  <2>1. ASSUME NEW i \in Iter, Done(t, "ok", <<i>>), leases' = (leases \ {t}) \cup {i}
        PROVE  Typed'
    <3>1. <<i>> \in Seq(Ip \cup Iter \cup {None})
      OBVIOUS
    <3>2. pc' \in [Thread -> Label] /\ ret' \in [Thread -> Result]
      BY <1>2, <2>1, <3>1 DEF Tag
    <3> QED BY <1>12, <2>1, <3>2 DEF Build
  <2>2. CASE Raise(t, "bad_data") /\ UNCHANGED leases
    BY <1>3, <1>12, <2>2 DEF Build, Tag
  <2> QED BY <1>12, <2>1, <2>2 DEF Build
<1>13. ASSUME NEW t \in Thread, Borrow(t) PROVE Typed'
  <2>1. CASE Goto(t, "advance") /\ borrower' = [borrower EXCEPT ![call[t].iter] = t]
    BY <1>1, <1>13, <2>1 DEF Borrow, source, Label
  <2>2. CASE Raise(t, "busy") /\ UNCHANGED borrower
    BY <1>3, <1>13, <2>2 DEF Borrow, source, Tag
  <2> QED BY <1>13, <2>1, <2>2 DEF Borrow
<1>14. ASSUME NEW t \in Thread, Advance(t) \/ Convert(t) PROVE Typed'
  <2>1. UNCHANGED <<source, borrower, call>>
    BY <1>14 DEF Advance, Convert
  <2>2. CASE Goto(t, "convert")
    BY <1>1, <2>1, <2>2 DEF source, Label
  <2>3. ASSUME NEW i \in Iter \cup {None}, Done(t, "ok", <<i>>) PROVE Typed'
    <3>1. <<i>> \in Seq(Ip \cup Iter \cup {None})
      OBVIOUS
    <3> QED BY <1>2, <2>1, <2>3, <3>1 DEF source, Tag
  <2>4. ASSUME NEW tag \in Tag, Raise(t, tag) PROVE Typed'
    BY <1>3, <2>1, <2>4 DEF source
  <2>5. call[t].iter \in Iter \cup {None}
    BY DEF Frame
  <2> QED BY <1>14, <2>2, <2>3, <2>4, <2>5 DEF Advance, Convert, Tag
<1>16. ASSUME NEW t \in Thread, Finish(t) PROVE Typed'
  <2>1. Idle \in Frame /\ NoRet \in Result
    BY DEF Idle, NewFrame, NoRet, Frame, Result, Tag
  <2> QED BY <1>16, <2>1 DEF Finish, Release, Label
<1>17. ASSUME NEW i \in Iter, DropIter(i) PROVE Typed'
  BY <1>17 DEF DropIter, Release
<1>18. CASE DropReader
  <2>1. strong \in Nat
    BY CountIsNatural
  <2>2. strong' \in Int /\ mapped' = (strong' > 0)
    BY <1>18, <2>1 DEF DropReader
  <2>3. mapped' \in BOOLEAN
    BY <2>2
  <2> QED BY <1>18, <2>3 DEF DropReader
<1>19. CASE UNCHANGED vars \/ Over
  BY <1>19 DEF vars, source, Over
<1> QED
  BY <1>4, <1>5, <1>6, <1>7, <1>8, <1>9, <1>10, <1>11, <1>12, <1>13, <1>14, <1>16,
     <1>17, <1>18, <1>19 DEF Next, Step

\* Every step keeps each method on its own control flow.
LEMMA ControlStep == IInv /\ [Next]_vars => ControlInv'
<1> SUFFICES ASSUME Typed, ControlInv, [Next]_vars PROVE ControlInv'
  BY DEF IInv
<1>0. \A s \in Seq(Ip), ip \in Ip : Append(s, ip) # <<>>
  BY AppendProperties
<1> USE DEF Typed, Frame, Result, ControlInv, ControlOf
<1>1. ASSUME NEW t \in Thread, Call(t) PROVE ControlInv'
  <2>1. ASSUME NEW u \in Thread, u # t PROVE ControlOf(u)'
    BY <1>1, <2>1 DEF Call, Goto, Entry, NewFrame, source, Idle
  <2>2. ControlOf(t)'
    BY MethodAssumption, <1>1 DEF Call, Goto, Entry, NewFrame, source, Idle, Single, Batch
  <2> QED BY <2>1, <2>2
<1>2. ASSUME NEW t \in Thread, ParseIp(t) PROVE ControlInv'
  <2>1. ASSUME NEW u \in Thread, u # t PROVE ControlOf(u)'
    BY <1>2, <2>1 DEF ParseIp, Raise, Done, Goto, source
  <2>2. ControlOf(t)'
    <3>1. CASE Raise(t, "bad_ip") /\ UNCHANGED call
      BY <1>2, <3>1 DEF ParseIp, Raise, Done, source, Single, Batch
    <3>2. CASE Raise(t, "wrong_family") /\ UNCHANGED call
      BY <1>2, <3>2 DEF ParseIp, Raise, Done, source, Single, Batch
    <3>3. ASSUME NEW ip \in Ip, call' = [call EXCEPT ![t].fed = Append(@, ip)],
                 Goto(t, CASE call[t].method \in Batch      -> "lookup"
                           [] call[t].method = "get_path"  -> "parse_path"
                           [] OTHER                        -> "load")
          PROVE  ControlOf(t)'
      <4>1. /\ call'[t].fed = Append(call[t].fed, ip) /\ call'[t].fed # <<>>
            /\ call'[t].method = call[t].method /\ call'[t].iter = call[t].iter
            /\ call'[t].objects = call[t].objects
        <5>1. call[t] \in Frame /\ call[t].fed \in Seq(Ip)
          OBVIOUS
        <5>2. Append(call[t].fed, ip) # <<>>
          BY <1>0, <5>1
        <5> QED BY <3>3, <5>1, <5>2
      <4>2. CASE call[t].method \in Batch
        BY <1>2, <3>3, <4>1, <4>2 DEF ParseIp, Goto, source, Single, Batch
      <4>3. CASE call[t].method = "get_path"
        BY <1>2, <3>3, <4>1, <4>3 DEF ParseIp, Goto, source, Single, Batch
      <4>4. CASE call[t].method \notin Batch /\ call[t].method # "get_path"
        BY <1>2, <3>3, <4>1, <4>4 DEF ParseIp, Goto, source, Single, Batch
      <4> QED BY <4>2, <4>3, <4>4
    <3> QED BY <1>2, <3>1, <3>2, <3>3 DEF ParseIp, Ip
  <2> QED BY <2>1, <2>2
<1>3. ASSUME NEW t \in Thread, ParsePath(t) PROVE ControlInv'
  <2>1. ASSUME NEW u \in Thread, u # t PROVE ControlOf(u)'
    BY <1>3, <2>1 DEF ParsePath, Raise, Done, Goto, source
  <2>2. ControlOf(t)'
    BY <1>3 DEF ParsePath, Raise, Done, Goto, source, Single, Batch
  <2> QED BY <2>1, <2>2
<1>4. ASSUME NEW t \in Thread, Check(t) PROVE ControlInv'
  <2>1. ASSUME NEW u \in Thread, u # t PROVE ControlOf(u)'
    BY <1>4, <2>1 DEF Check, Raise, Done, Goto, source
  <2>2. ControlOf(t)'
    BY <1>4 DEF Check, Raise, Done, Goto, source, Single, Batch
  <2> QED BY <2>1, <2>2
<1>5. ASSUME NEW t \in Thread, Iterate(t) PROVE ControlInv'
  <2>1. ASSUME NEW u \in Thread, u # t PROVE ControlOf(u)'
    BY <1>5, <2>1 DEF Iterate, Raise, Done, Goto, source
  <2>2. ControlOf(t)'
    BY <1>5 DEF Iterate, Raise, Done, Goto, source, Single, Batch
  <2> QED BY <2>1, <2>2
<1>6. ASSUME NEW t \in Thread, NextItem(t) PROVE ControlInv'
  <2>1. ASSUME NEW u \in Thread, u # t PROVE ControlOf(u)'
    BY <1>6, <2>1 DEF NextItem, Raise, Done, Goto, source
  <2>2. ControlOf(t)'
    BY <1>6 DEF NextItem, Raise, Done, Goto, source, Single, Batch
  <2> QED BY <2>1, <2>2
<1>7. ASSUME NEW t \in Thread, Load(t) PROVE ControlInv'
  <2>1. ASSUME NEW u \in Thread, u # t PROVE ControlOf(u)'
    BY <1>7, <2>1 DEF Load, Raise, Done, Goto, AfterLoad, Acquire
  <2>2. ControlOf(t)'
    <3>1. CASE Acquire(t) /\ Goto(t, AfterLoad(call[t].method))
      BY <1>7, <3>1 DEF Load, Goto, AfterLoad, Acquire, Single, Batch, ToldClosed
    <3>2. CASE /\ Raise(t, IF call[t].method = "metadata" THEN "closed_os" ELSE "closed")
               /\ UNCHANGED <<strong, leases>>
      BY <1>7, <3>2 DEF Load, Raise, Done, Single, Batch, ToldClosed
    <3> QED BY <1>7, <3>1, <3>2 DEF Load
  <2> QED BY <2>1, <2>2
<1>8. ASSUME NEW t \in Thread, Lookup(t) PROVE ControlInv'
  <2>1. ASSUME NEW u \in Thread, u # t PROVE ControlOf(u)'
    <3>1. pc'[u] = pc[u] /\ call'[u] = call[u] /\ ret'[u] = ret[u]
      <4>1. CASE Current(t) \in Corrupt /\ Raise(t, "bad_data") /\ UNCHANGED call
        BY <2>1, <4>1 DEF Raise, Done
      <4>2. CASE Done(t, "ok", <<Record(Current(t))>>) /\ UNCHANGED call
        BY <2>1, <4>2 DEF Done
      <4>3. CASE /\ call' = [call EXCEPT ![t].objects = Append(@, Record(Current(t)))]
                 /\ Goto(t, "items")
        BY <2>1, <4>3 DEF Goto
      <4> QED BY <1>8, <4>1, <4>2, <4>3 DEF Lookup
    <3> QED BY <3>1
  <2>2. ControlOf(t)'
    BY <1>8 DEF Lookup, Raise, Done, Goto, source, Single, Batch
  <2> QED BY <2>1, <2>2
<1>9. ASSUME NEW t \in Thread, Copy(t) PROVE ControlInv'
  <2>1. ASSUME NEW u \in Thread, u # t PROVE ControlOf(u)'
    BY <1>9, <2>1 DEF Copy, Done, source
  <2>2. ControlOf(t)'
    BY <1>9 DEF Copy, Done, source, Single, Batch
  <2> QED BY <2>1, <2>2
<1>10. ASSUME NEW t \in Thread, Peek(t) PROVE ControlInv'
  <2>1. ASSUME NEW u \in Thread, u # t PROVE ControlOf(u)'
    BY <1>10, <2>1 DEF Peek, Done, source
  <2>2. ControlOf(t)'
    BY <1>10 DEF Peek, Done, source, Single, Batch
  <2> QED BY <2>1, <2>2
<1>11. ASSUME NEW t \in Thread, Store(t) PROVE ControlInv'
  <2>1. ASSUME NEW u \in Thread, u # t PROVE ControlOf(u)'
    BY <1>11, <2>1 DEF Store, Done
  <2>2. ControlOf(t)'
    BY <1>11 DEF Store, Done, Single, Batch
  <2> QED BY <2>1, <2>2
<1>12. ASSUME NEW t \in Thread, Build(t) PROVE ControlInv'
  <2>1. ASSUME NEW u \in Thread, u # t PROVE ControlOf(u)'
    BY <1>12, <2>1 DEF Build, Raise, Done
  <2>2. ControlOf(t)'
    BY <1>12 DEF Build, Raise, Done, Single, Batch
  <2> QED BY <2>1, <2>2
<1>13. ASSUME NEW t \in Thread, Borrow(t) PROVE ControlInv'
  <2>1. ASSUME NEW u \in Thread, u # t PROVE ControlOf(u)'
    BY <1>13, <2>1 DEF Borrow, Raise, Done, Goto, source
  <2>2. ControlOf(t)'
    BY <1>13 DEF Borrow, Raise, Done, Goto, source, Single, Batch
  <2> QED BY <2>1, <2>2
<1>14. ASSUME NEW t \in Thread, Advance(t) PROVE ControlInv'
  <2>1. ASSUME NEW u \in Thread, u # t PROVE ControlOf(u)'
    BY <1>14, <2>1 DEF Advance, Raise, Done, Goto, source
  <2>2. ControlOf(t)'
    BY <1>14 DEF Advance, Raise, Done, Goto, source, Single, Batch
  <2> QED BY <2>1, <2>2
<1>15. ASSUME NEW t \in Thread, Convert(t) PROVE ControlInv'
  <2>1. ASSUME NEW u \in Thread, u # t PROVE ControlOf(u)'
    BY <1>15, <2>1 DEF Convert, Raise, Done, source
  <2>2. ControlOf(t)'
    BY <1>15 DEF Convert, Raise, Done, source, Single, Batch
  <2> QED BY <2>1, <2>2
<1>16. ASSUME NEW t \in Thread, Finish(t) PROVE ControlInv'
  <2>1. ASSUME NEW u \in Thread, u # t PROVE ControlOf(u)'
    BY <1>16, <2>1 DEF Finish, Release, Idle, NewFrame, NoRet
  <2>2. ControlOf(t)'
    BY <1>16 DEF Finish, Release, Idle, NewFrame, NoRet, Single, Batch
  <2> QED BY <2>1, <2>2
<1>17. ASSUME NEW i \in Iter, DropIter(i) PROVE ControlInv'
  BY <1>17 DEF DropIter, Release
<1>18. CASE DropReader
  BY <1>18 DEF DropReader
<1>19. CASE UNCHANGED vars \/ Over
  <2>1. UNCHANGED <<leases, borrower, pc, call, ret>>
    BY <1>19 DEF vars, source, Over
  <2> QED BY <2>1
<1> QED
  BY <1>1, <1>2, <1>3, <1>4, <1>5, <1>6, <1>7, <1>8, <1>9, <1>10, <1>11, <1>12,
     <1>13, <1>14, <1>15, <1>16, <1>17, <1>18, <1>19 DEF Next, Step

\* Every step keeps the frames that own a count known by where they stand.
LEMMA OwnerStep == IInv /\ [Next]_vars => OwnerInv'
<1> SUFFICES ASSUME Typed, ControlInv, OwnerInv, [Next]_vars PROVE OwnerInv'
  BY DEF IInv
<1> USE DEF Typed, Frame, Result, ControlInv, ControlOf, OwnerInv, OwnerOf
<1>1. ASSUME NEW t \in Thread, Call(t) PROVE OwnerInv'
  <2>1. ASSUME NEW u \in Thread, u # t PROVE OwnerOf(u)'
    BY ClientsAssumption, <1>1, <2>1 DEF Call, Goto, Entry, NewFrame, source
  <2>2. OwnerOf(t)'
    BY ClientsAssumption, MethodAssumption, <1>1 DEF Call, Goto, Entry, NewFrame, source, Single, Batch, ToldClosed
  <2> QED BY <2>1, <2>2
<1>2. ASSUME NEW t \in Thread, ParseIp(t) PROVE OwnerInv'
  <2>1. ASSUME NEW u \in Thread, u # t PROVE OwnerOf(u)'
    BY ClientsAssumption, <1>2, <2>1 DEF ParseIp, Raise, Done, Goto, source
  <2>2. OwnerOf(t)'
    BY ClientsAssumption, <1>2 DEF ParseIp, Raise, Done, Goto, source, Single, Batch, ToldClosed
  <2> QED BY <2>1, <2>2
<1>3. ASSUME NEW t \in Thread, ParsePath(t) PROVE OwnerInv'
  <2>1. ASSUME NEW u \in Thread, u # t PROVE OwnerOf(u)'
    BY ClientsAssumption, <1>3, <2>1 DEF ParsePath, Raise, Done, Goto, source
  <2>2. OwnerOf(t)'
    BY ClientsAssumption, <1>3 DEF ParsePath, Raise, Done, Goto, source, Single, Batch, ToldClosed
  <2> QED BY <2>1, <2>2
<1>4. ASSUME NEW t \in Thread, Check(t) PROVE OwnerInv'
  <2>1. ASSUME NEW u \in Thread, u # t PROVE OwnerOf(u)'
    BY ClientsAssumption, <1>4, <2>1 DEF Check, Raise, Done, Goto, source
  <2>2. OwnerOf(t)'
    BY ClientsAssumption, <1>4 DEF Check, Raise, Done, Goto, source, Single, Batch, ToldClosed
  <2> QED BY <2>1, <2>2
<1>5. ASSUME NEW t \in Thread, Iterate(t) PROVE OwnerInv'
  <2>1. ASSUME NEW u \in Thread, u # t PROVE OwnerOf(u)'
    BY ClientsAssumption, <1>5, <2>1 DEF Iterate, Raise, Done, Goto, source
  <2>2. OwnerOf(t)'
    BY ClientsAssumption, <1>5 DEF Iterate, Raise, Done, Goto, source, Single, Batch, ToldClosed
  <2> QED BY <2>1, <2>2
<1>6. ASSUME NEW t \in Thread, NextItem(t) PROVE OwnerInv'
  <2>1. ASSUME NEW u \in Thread, u # t PROVE OwnerOf(u)'
    BY ClientsAssumption, <1>6, <2>1 DEF NextItem, Raise, Done, Goto, source
  <2>2. OwnerOf(t)'
    BY ClientsAssumption, <1>6 DEF NextItem, Raise, Done, Goto, source, Single, Batch, ToldClosed
  <2> QED BY <2>1, <2>2
<1>7. ASSUME NEW t \in Thread, Load(t) PROVE OwnerInv'
  <2>1. ASSUME NEW u \in Thread, u # t PROVE OwnerOf(u)'
    BY ClientsAssumption, <1>7, <2>1 DEF Load, Raise, Done, Goto, AfterLoad, Acquire
  <2>2. OwnerOf(t)'
    <3>1. CASE Acquire(t) /\ Goto(t, AfterLoad(call[t].method))
      BY ClientsAssumption, <1>7, <3>1 DEF Load, Goto, AfterLoad, Acquire, Single, Batch, ToldClosed
    <3>2. CASE /\ Raise(t, IF call[t].method = "metadata" THEN "closed_os" ELSE "closed")
               /\ UNCHANGED <<strong, leases>>
      BY ClientsAssumption, <1>7, <3>2 DEF Load, Raise, Done, Single, Batch, ToldClosed
    <3> QED BY <1>7, <3>1, <3>2 DEF Load
  <2> QED BY <2>1, <2>2
<1>8. ASSUME NEW t \in Thread, Lookup(t) PROVE OwnerInv'
  <2>1. ASSUME NEW u \in Thread, u # t PROVE OwnerOf(u)'
    BY ClientsAssumption, <1>8, <2>1 DEF Lookup, Raise, Done, Goto, source
  <2>2. OwnerOf(t)'
    BY ClientsAssumption, <1>8 DEF Lookup, Raise, Done, Goto, source, Single, Batch, ToldClosed
  <2> QED BY <2>1, <2>2
<1>9. ASSUME NEW t \in Thread, Copy(t) PROVE OwnerInv'
  <2>1. ASSUME NEW u \in Thread, u # t PROVE OwnerOf(u)'
    BY ClientsAssumption, <1>9, <2>1 DEF Copy, Done, source
  <2>2. OwnerOf(t)'
    BY ClientsAssumption, <1>9 DEF Copy, Done, source, Single, Batch, ToldClosed
  <2> QED BY <2>1, <2>2
<1>10. ASSUME NEW t \in Thread, Peek(t) PROVE OwnerInv'
  <2>1. ASSUME NEW u \in Thread, u # t PROVE OwnerOf(u)'
    BY ClientsAssumption, <1>10, <2>1 DEF Peek, Done, source
  <2>2. OwnerOf(t)'
    BY ClientsAssumption, <1>10 DEF Peek, Done, source, Single, Batch, ToldClosed
  <2> QED BY <2>1, <2>2
<1>11. ASSUME NEW t \in Thread, Store(t) PROVE OwnerInv'
  <2>1. ASSUME NEW u \in Thread, u # t PROVE OwnerOf(u)'
    BY ClientsAssumption, <1>11, <2>1 DEF Store, Done
  <2>2. OwnerOf(t)'
    BY ClientsAssumption, <1>11 DEF Store, Done, Single, Batch, ToldClosed
  <2> QED BY <2>1, <2>2
<1>12. ASSUME NEW t \in Thread, Build(t) PROVE OwnerInv'
  <2>1. ASSUME NEW u \in Thread, u # t PROVE OwnerOf(u)'
    BY ClientsAssumption, <1>12, <2>1 DEF Build, Raise, Done
  <2>2. OwnerOf(t)'
    BY ClientsAssumption, <1>12 DEF Build, Raise, Done, Single, Batch, ToldClosed
  <2> QED BY <2>1, <2>2
<1>13. ASSUME NEW t \in Thread, Borrow(t) PROVE OwnerInv'
  <2>1. ASSUME NEW u \in Thread, u # t PROVE OwnerOf(u)'
    BY ClientsAssumption, <1>13, <2>1 DEF Borrow, Raise, Done, Goto, source
  <2>2. OwnerOf(t)'
    BY ClientsAssumption, <1>13 DEF Borrow, Raise, Done, Goto, source, Single, Batch, ToldClosed
  <2> QED BY <2>1, <2>2
<1>14. ASSUME NEW t \in Thread, Advance(t) PROVE OwnerInv'
  <2>1. ASSUME NEW u \in Thread, u # t PROVE OwnerOf(u)'
    BY ClientsAssumption, <1>14, <2>1 DEF Advance, Raise, Done, Goto, source
  <2>2. OwnerOf(t)'
    BY ClientsAssumption, <1>14 DEF Advance, Raise, Done, Goto, source, Single, Batch, ToldClosed
  <2> QED BY <2>1, <2>2
<1>15. ASSUME NEW t \in Thread, Convert(t) PROVE OwnerInv'
  <2>1. ASSUME NEW u \in Thread, u # t PROVE OwnerOf(u)'
    BY ClientsAssumption, <1>15, <2>1 DEF Convert, Raise, Done, source
  <2>2. OwnerOf(t)'
    BY ClientsAssumption, <1>15 DEF Convert, Raise, Done, source, Single, Batch, ToldClosed
  <2> QED BY <2>1, <2>2
<1>16. ASSUME NEW t \in Thread, Finish(t) PROVE OwnerInv'
  <2>1. ASSUME NEW u \in Thread, u # t PROVE OwnerOf(u)'
    BY ClientsAssumption, <1>16, <2>1 DEF Finish, Release, Idle, NewFrame, NoRet
  <2>2. OwnerOf(t)'
    BY ClientsAssumption, <1>16 DEF Finish, Release, Idle, NewFrame, NoRet, Single, Batch, ToldClosed
  <2> QED BY <2>1, <2>2
<1>17. ASSUME NEW i \in Iter, DropIter(i) PROVE OwnerInv'
  BY ClientsAssumption, <1>17 DEF DropIter, Release
<1>18. CASE DropReader
  BY <1>18 DEF DropReader
<1>19. CASE UNCHANGED vars \/ Over
  <2>1. UNCHANGED <<leases, borrower, pc, call, ret>>
    BY <1>19 DEF vars, source, Over
  <2> QED BY <2>1
<1> QED
  BY <1>1, <1>2, <1>3, <1>4, <1>5, <1>6, <1>7, <1>8, <1>9, <1>10, <1>11, <1>12,
     <1>13, <1>14, <1>15, <1>16, <1>17, <1>18, <1>19 DEF Next, Step

\* Every step keeps an iterator in use alive and its borrow exclusive.
LEMMA IterStep == IInv /\ [Next]_vars => IterInv'
<1> SUFFICES ASSUME Typed, ControlInv, OwnerInv, IterInv, [Next]_vars PROVE IterInv'
  BY DEF IInv
<1> USE DEF Typed, Frame, Result, ControlInv, ControlOf, OwnerInv, OwnerOf, IterInv, IterOf
<1>1. ASSUME NEW t \in Thread, Call(t) PROVE IterInv'
  <2>1. ASSUME NEW u \in Thread, u # t PROVE IterOf(u)'
    BY ClientsAssumption, <1>1, <2>1 DEF Call, Goto, Entry, NewFrame, source
  <2>2. IterOf(t)'
    BY ClientsAssumption, MethodAssumption, <1>1 DEF Call, Goto, Entry, NewFrame, source
  <2> QED BY <2>1, <2>2
<1>2. ASSUME NEW t \in Thread, ParseIp(t) PROVE IterInv'
  <2>1. ASSUME NEW u \in Thread, u # t PROVE IterOf(u)'
    BY ClientsAssumption, <1>2, <2>1 DEF ParseIp, Raise, Done, Goto, source
  <2>2. IterOf(t)'
    <3>1. CASE Raise(t, "bad_ip") /\ UNCHANGED call
      BY ClientsAssumption, <1>2, <3>1 DEF ParseIp, Raise, Done, source, Single, Batch
    <3>2. CASE Raise(t, "wrong_family") /\ UNCHANGED call
      BY ClientsAssumption, <1>2, <3>2 DEF ParseIp, Raise, Done, source, Single, Batch
    <3>3. ASSUME NEW ip \in Ip, call' = [call EXCEPT ![t].fed = Append(@, ip)],
                 Goto(t, CASE call[t].method \in Batch      -> "lookup"
                           [] call[t].method = "get_path"  -> "parse_path"
                           [] OTHER                        -> "load")
          PROVE  IterOf(t)'
      <4>1. call'[t].method = call[t].method /\ call'[t].iter = call[t].iter
        BY <3>3
      <4>2. CASE call[t].method \in Batch
        BY ClientsAssumption, <1>2, <3>3, <4>1, <4>2 DEF ParseIp, Goto, source, Single, Batch
      <4>3. CASE call[t].method = "get_path"
        BY ClientsAssumption, <1>2, <3>3, <4>1, <4>3 DEF ParseIp, Goto, source, Single, Batch
      <4>4. CASE call[t].method \notin Batch /\ call[t].method # "get_path"
        BY ClientsAssumption, <1>2, <3>3, <4>1, <4>4 DEF ParseIp, Goto, source, Single, Batch
      <4> QED BY <4>2, <4>3, <4>4
    <3> QED BY <1>2, <3>1, <3>2, <3>3 DEF ParseIp, Ip
  <2> QED BY <2>1, <2>2
<1>3. ASSUME NEW t \in Thread, ParsePath(t) PROVE IterInv'
  <2>1. ASSUME NEW u \in Thread, u # t PROVE IterOf(u)'
    BY ClientsAssumption, <1>3, <2>1 DEF ParsePath, Raise, Done, Goto, source
  <2>2. IterOf(t)'
    BY ClientsAssumption, <1>3 DEF ParsePath, Raise, Done, Goto, source
  <2> QED BY <2>1, <2>2
<1>4. ASSUME NEW t \in Thread, Check(t) PROVE IterInv'
  <2>1. ASSUME NEW u \in Thread, u # t PROVE IterOf(u)'
    BY ClientsAssumption, <1>4, <2>1 DEF Check, Raise, Done, Goto, source
  <2>2. IterOf(t)'
    BY ClientsAssumption, <1>4 DEF Check, Raise, Done, Goto, source
  <2> QED BY <2>1, <2>2
<1>5. ASSUME NEW t \in Thread, Iterate(t) PROVE IterInv'
  <2>1. ASSUME NEW u \in Thread, u # t PROVE IterOf(u)'
    BY ClientsAssumption, <1>5, <2>1 DEF Iterate, Raise, Done, Goto, source
  <2>2. IterOf(t)'
    BY ClientsAssumption, <1>5 DEF Iterate, Raise, Done, Goto, source
  <2> QED BY <2>1, <2>2
<1>6. ASSUME NEW t \in Thread, NextItem(t) PROVE IterInv'
  <2>1. ASSUME NEW u \in Thread, u # t PROVE IterOf(u)'
    BY ClientsAssumption, <1>6, <2>1 DEF NextItem, Raise, Done, Goto, source
  <2>2. IterOf(t)'
    BY ClientsAssumption, <1>6 DEF NextItem, Raise, Done, Goto, source
  <2> QED BY <2>1, <2>2
<1>7. ASSUME NEW t \in Thread, Load(t) PROVE IterInv'
  <2>1. ASSUME NEW u \in Thread, u # t PROVE IterOf(u)'
    BY ClientsAssumption, <1>7, <2>1 DEF Load, Raise, Done, Goto, AfterLoad, Acquire
  <2>2. IterOf(t)'
    BY ClientsAssumption, <1>7 DEF Load, Raise, Done, Goto, AfterLoad, Acquire
  <2> QED BY <2>1, <2>2
<1>8. ASSUME NEW t \in Thread, Lookup(t) PROVE IterInv'
  <2>1. ASSUME NEW u \in Thread, u # t PROVE IterOf(u)'
    BY ClientsAssumption, <1>8, <2>1 DEF Lookup, Raise, Done, Goto, source
  <2>2. IterOf(t)'
    <3>1. CASE Raise(t, "bad_data") /\ UNCHANGED call
      BY ClientsAssumption, <1>8, <3>1 DEF Lookup, Raise, Done, source
    <3>2. CASE Done(t, "ok", <<Record(Current(t))>>) /\ UNCHANGED call
      BY ClientsAssumption, <1>8, <3>2 DEF Lookup, Done, source
    <3>3. CASE /\ call' = [call EXCEPT ![t].objects = Append(@, Record(Current(t)))]
               /\ Goto(t, "items")
      <4>1. call'[t].method = call[t].method /\ call'[t].iter = call[t].iter
        BY <3>3
      <4> QED BY ClientsAssumption, <1>8, <3>3, <4>1 DEF Lookup, Goto, source
    <3> QED BY <1>8, <3>1, <3>2, <3>3 DEF Lookup
  <2> QED BY <2>1, <2>2
<1>9. ASSUME NEW t \in Thread, Copy(t) PROVE IterInv'
  <2>1. ASSUME NEW u \in Thread, u # t PROVE IterOf(u)'
    BY ClientsAssumption, <1>9, <2>1 DEF Copy, Done, source
  <2>2. IterOf(t)'
    BY ClientsAssumption, <1>9 DEF Copy, Done, source
  <2> QED BY <2>1, <2>2
<1>10. ASSUME NEW t \in Thread, Peek(t) PROVE IterInv'
  <2>1. ASSUME NEW u \in Thread, u # t PROVE IterOf(u)'
    BY ClientsAssumption, <1>10, <2>1 DEF Peek, Done, source
  <2>2. IterOf(t)'
    BY ClientsAssumption, <1>10 DEF Peek, Done, source
  <2> QED BY <2>1, <2>2
<1>11. ASSUME NEW t \in Thread, Store(t) PROVE IterInv'
  <2>1. ASSUME NEW u \in Thread, u # t PROVE IterOf(u)'
    BY ClientsAssumption, <1>11, <2>1 DEF Store, Done
  <2>2. IterOf(t)'
    BY ClientsAssumption, <1>11 DEF Store, Done
  <2> QED BY <2>1, <2>2
<1>12. ASSUME NEW t \in Thread, Build(t) PROVE IterInv'
  <2>1. ASSUME NEW u \in Thread, u # t PROVE IterOf(u)'
    BY ClientsAssumption, <1>12, <2>1 DEF Build, Raise, Done
  <2>2. IterOf(t)'
    BY ClientsAssumption, <1>12 DEF Build, Raise, Done
  <2> QED BY <2>1, <2>2
<1>13. ASSUME NEW t \in Thread, Borrow(t) PROVE IterInv'
  <2>1. ASSUME NEW u \in Thread, u # t PROVE IterOf(u)'
    BY ClientsAssumption, <1>13, <2>1 DEF Borrow, Raise, Done, Goto, source
  <2>2. IterOf(t)'
    BY ClientsAssumption, <1>13 DEF Borrow, Raise, Done, Goto, source
  <2> QED BY <2>1, <2>2
<1>14. ASSUME NEW t \in Thread, Advance(t) PROVE IterInv'
  <2>1. ASSUME NEW u \in Thread, u # t PROVE IterOf(u)'
    BY ClientsAssumption, <1>14, <2>1 DEF Advance, Raise, Done, Goto, source
  <2>2. IterOf(t)'
    BY ClientsAssumption, <1>14 DEF Advance, Raise, Done, Goto, source
  <2> QED BY <2>1, <2>2
<1>15. ASSUME NEW t \in Thread, Convert(t) PROVE IterInv'
  <2>1. ASSUME NEW u \in Thread, u # t PROVE IterOf(u)'
    BY ClientsAssumption, <1>15, <2>1 DEF Convert, Raise, Done, source
  <2>2. IterOf(t)'
    BY ClientsAssumption, <1>15 DEF Convert, Raise, Done, source
  <2> QED BY <2>1, <2>2
<1>16. ASSUME NEW t \in Thread, Finish(t) PROVE IterInv'
  <2>1. ASSUME NEW u \in Thread, u # t PROVE IterOf(u)'
    BY ClientsAssumption, <1>16, <2>1 DEF Finish, Release, Idle, NewFrame, NoRet
  <2>2. IterOf(t)'
    BY ClientsAssumption, <1>16 DEF Finish, Release, Idle, NewFrame, NoRet
  <2> QED BY <2>1, <2>2
<1>17. ASSUME NEW i \in Iter, DropIter(i) PROVE IterInv'
  BY ClientsAssumption, <1>17 DEF DropIter, Release
<1>18. CASE DropReader
  BY <1>18 DEF DropReader
<1>19. CASE UNCHANGED vars \/ Over
  <2>1. UNCHANGED <<leases, borrower, pc, call, ret>>
    BY <1>19 DEF vars, source, Over
  <2> QED BY <2>1
<1> QED
  BY <1>1, <1>2, <1>3, <1>4, <1>5, <1>6, <1>7, <1>8, <1>9, <1>10, <1>11, <1>12,
     <1>13, <1>14, <1>15, <1>16, <1>17, <1>18, <1>19 DEF Next, Step

\* Every step keeps what a call learns of a close() that came before it.
LEMMA LateStep == IInv /\ [Next]_vars => LateInv'
<1> SUFFICES ASSUME Typed, ControlInv, LateInv, [Next]_vars PROVE LateInv'
  BY DEF IInv
<1> USE DEF Typed, Frame, Result, ControlInv, ControlOf, LateInv, LateOf
<1>1. ASSUME NEW t \in Thread, Call(t) PROVE LateInv'
  <2>1. ASSUME NEW u \in Thread, u # t PROVE LateOf(u)'
    BY <1>1, <2>1 DEF Call, Goto, Entry, NewFrame, source
  <2>2. LateOf(t)'
    BY MethodAssumption, <1>1 DEF Call, Goto, Entry, NewFrame, source, Single, Batch, ToldClosed
  <2> QED BY <2>1, <2>2
<1>2. ASSUME NEW t \in Thread, ParseIp(t) PROVE LateInv'
  <2>1. ASSUME NEW u \in Thread, u # t PROVE LateOf(u)'
    BY <1>2, <2>1 DEF ParseIp, Raise, Done, Goto, source
  <2>2. LateOf(t)'
    <3>1. CASE Raise(t, "bad_ip") /\ UNCHANGED call
      BY <1>2, <3>1 DEF ParseIp, Raise, Done, source, Single, Batch, ToldClosed
    <3>2. CASE Raise(t, "wrong_family") /\ UNCHANGED call
      BY <1>2, <3>2 DEF ParseIp, Raise, Done, source, Single, Batch, ToldClosed
    <3>3. ASSUME NEW ip \in Ip, call' = [call EXCEPT ![t].fed = Append(@, ip)],
                 Goto(t, CASE call[t].method \in Batch      -> "lookup"
                           [] call[t].method = "get_path"  -> "parse_path"
                           [] OTHER                        -> "load")
          PROVE  LateOf(t)'
      <4>1. call'[t].method = call[t].method /\ call'[t].iter = call[t].iter
        BY <3>3
      <4>2. CASE call[t].method \in Batch
        BY <1>2, <3>3, <4>1, <4>2 DEF ParseIp, Goto, source, Single, Batch
      <4>3. CASE call[t].method = "get_path"
        BY <1>2, <3>3, <4>1, <4>3 DEF ParseIp, Goto, source, Single, Batch
      <4>4. CASE call[t].method \notin Batch /\ call[t].method # "get_path"
        BY <1>2, <3>3, <4>1, <4>4 DEF ParseIp, Goto, source, Single, Batch
      <4> QED BY <4>2, <4>3, <4>4
    <3> QED BY <1>2, <3>1, <3>2, <3>3 DEF ParseIp, Ip
  <2> QED BY <2>1, <2>2
<1>3. ASSUME NEW t \in Thread, ParsePath(t) PROVE LateInv'
  <2>1. ASSUME NEW u \in Thread, u # t PROVE LateOf(u)'
    BY <1>3, <2>1 DEF ParsePath, Raise, Done, Goto, source
  <2>2. LateOf(t)'
    BY <1>3 DEF ParsePath, Raise, Done, Goto, source, Single, Batch, ToldClosed
  <2> QED BY <2>1, <2>2
<1>4. ASSUME NEW t \in Thread, Check(t) PROVE LateInv'
  <2>1. ASSUME NEW u \in Thread, u # t PROVE LateOf(u)'
    BY <1>4, <2>1 DEF Check, Raise, Done, Goto, source
  <2>2. LateOf(t)'
    <3>1. /\ call[t].method \in Batch /\ call[t].began # "closed"
          /\ call' = call /\ slot' = slot
      BY <1>4 DEF Check, Batch, source
    <3>2. ret[t].tag = "none"
      BY <1>4 DEF Check
    <3>3. \/ ret' = ret
          \/ \E tag \in Tag \ ToldClosed, vals \in Seq(Ip \cup Iter \cup {None}) \cup {call[t].objects} :
               ret' = [ret EXCEPT ![t] = [tag |-> tag, vals |-> vals]]
      <4>1. "bad_iterable" \in Tag \ ToldClosed /\ "ok" \in Tag \ ToldClosed /\ "raised" \in Tag \ ToldClosed
        BY DEF Tag, ToldClosed
      <4>2. <<>> \in Seq(Ip \cup Iter \cup {None})
        OBVIOUS
      <4> QED BY <1>4, <4>1, <4>2 DEF Check, Raise, Done, Goto
    <3>4. ret'[t].tag \notin ToldClosed
      BY <3>2, <3>3 DEF ToldClosed
    <3> QED BY <3>1, <3>4
  <2> QED BY <2>1, <2>2
<1>5. ASSUME NEW t \in Thread, Iterate(t) PROVE LateInv'
  <2>1. ASSUME NEW u \in Thread, u # t PROVE LateOf(u)'
    BY <1>5, <2>1 DEF Iterate, Raise, Done, Goto, source
  <2>2. LateOf(t)'
    <3>1. /\ call[t].method \in Batch /\ call[t].began # "closed"
          /\ call' = call /\ slot' = slot
      BY <1>5 DEF Iterate, Batch, source
    <3>2. ret[t].tag = "none"
      BY <1>5 DEF Iterate
    <3>3. \/ ret' = ret
          \/ \E tag \in Tag \ ToldClosed, vals \in Seq(Ip \cup Iter \cup {None}) \cup {call[t].objects} :
               ret' = [ret EXCEPT ![t] = [tag |-> tag, vals |-> vals]]
      <4>1. "bad_iterable" \in Tag \ ToldClosed /\ "ok" \in Tag \ ToldClosed /\ "raised" \in Tag \ ToldClosed
        BY DEF Tag, ToldClosed
      <4>2. <<>> \in Seq(Ip \cup Iter \cup {None})
        OBVIOUS
      <4> QED BY <1>5, <4>1, <4>2 DEF Iterate, Raise, Done, Goto
    <3>4. ret'[t].tag \notin ToldClosed
      BY <3>2, <3>3 DEF ToldClosed
    <3> QED BY <3>1, <3>4
  <2> QED BY <2>1, <2>2
<1>6. ASSUME NEW t \in Thread, NextItem(t) PROVE LateInv'
  <2>1. ASSUME NEW u \in Thread, u # t PROVE LateOf(u)'
    BY <1>6, <2>1 DEF NextItem, Raise, Done, Goto, source
  <2>2. LateOf(t)'
    <3>1. /\ call[t].method \in Batch /\ call[t].began # "closed"
          /\ call' = call /\ slot' = slot
      BY <1>6 DEF NextItem, Batch, source
    <3>2. ret[t].tag = "none"
      BY <1>6 DEF NextItem
    <3>3. \/ ret' = ret
          \/ \E tag \in Tag \ ToldClosed, vals \in Seq(Ip \cup Iter \cup {None}) \cup {call[t].objects} :
               ret' = [ret EXCEPT ![t] = [tag |-> tag, vals |-> vals]]
      <4>1. "bad_iterable" \in Tag \ ToldClosed /\ "ok" \in Tag \ ToldClosed /\ "raised" \in Tag \ ToldClosed
        BY DEF Tag, ToldClosed
      <4>2. <<>> \in Seq(Ip \cup Iter \cup {None})
        OBVIOUS
      <4> QED BY <1>6, <4>1, <4>2 DEF NextItem, Raise, Done, Goto
    <3>4. ret'[t].tag \notin ToldClosed
      BY <3>2, <3>3 DEF ToldClosed
    <3> QED BY <3>1, <3>4
  <2> QED BY <2>1, <2>2
<1>7. ASSUME NEW t \in Thread, Load(t) PROVE LateInv'
  <2>1. ASSUME NEW u \in Thread, u # t PROVE LateOf(u)'
    BY <1>7, <2>1 DEF Load, Raise, Done, Goto, AfterLoad, Acquire
  <2>2. LateOf(t)'
    BY <1>7 DEF Load, Raise, Done, Goto, AfterLoad, Acquire, Single, Batch, ToldClosed
  <2> QED BY <2>1, <2>2
<1>8. ASSUME NEW t \in Thread, Lookup(t) PROVE LateInv'
  <2>1. ASSUME NEW u \in Thread, u # t PROVE LateOf(u)'
    BY <1>8, <2>1 DEF Lookup, Raise, Done, Goto, source
  <2>2. LateOf(t)'
    <3>1. CASE Raise(t, "bad_data") /\ UNCHANGED call
      BY <1>8, <3>1 DEF Lookup, Raise, Done, source, Single, Batch, ToldClosed
    <3>2. CASE Done(t, "ok", <<Record(Current(t))>>) /\ UNCHANGED call
      BY <1>8, <3>2 DEF Lookup, Done, source, Single, Batch, ToldClosed
    <3>3. CASE /\ call' = [call EXCEPT ![t].objects = Append(@, Record(Current(t)))]
               /\ Goto(t, "items")
      <4>1. /\ call'[t].method = call[t].method /\ call'[t].began = call[t].began
            /\ call[t].began # "closed"
        <5>1. call[t].method \in Single \cup Batch /\ pc[t] = "lookup"
          BY <1>8 DEF Lookup
        <5>2. call[t].began # "closed"
          BY <5>1 DEF Single, Batch
        <5> QED BY <3>3, <5>2
      <4>2. ret'[t].tag \notin ToldClosed
        BY <1>8, <3>3 DEF Lookup, Goto, ToldClosed
      <4> QED BY <4>1, <4>2
    <3> QED BY <1>8, <3>1, <3>2, <3>3 DEF Lookup
  <2> QED BY <2>1, <2>2
<1>9. ASSUME NEW t \in Thread, Copy(t) PROVE LateInv'
  <2>1. ASSUME NEW u \in Thread, u # t PROVE LateOf(u)'
    BY <1>9, <2>1 DEF Copy, Done, source
  <2>2. LateOf(t)'
    BY <1>9 DEF Copy, Done, source, Single, Batch, ToldClosed
  <2> QED BY <2>1, <2>2
<1>10. ASSUME NEW t \in Thread, Peek(t) PROVE LateInv'
  <2>1. ASSUME NEW u \in Thread, u # t PROVE LateOf(u)'
    BY <1>10, <2>1 DEF Peek, Done, source
  <2>2. LateOf(t)'
    BY <1>10 DEF Peek, Done, source, Single, Batch, ToldClosed
  <2> QED BY <2>1, <2>2
<1>11. ASSUME NEW t \in Thread, Store(t) PROVE LateInv'
  <2>1. ASSUME NEW u \in Thread, u # t PROVE LateOf(u)'
    BY <1>11, <2>1 DEF Store, Done
  <2>2. LateOf(t)'
    BY <1>11 DEF Store, Done, Single, Batch, ToldClosed
  <2> QED BY <2>1, <2>2
<1>12. ASSUME NEW t \in Thread, Build(t) PROVE LateInv'
  <2>1. ASSUME NEW u \in Thread, u # t PROVE LateOf(u)'
    BY <1>12, <2>1 DEF Build, Raise, Done
  <2>2. LateOf(t)'
    BY <1>12 DEF Build, Raise, Done, Single, Batch, ToldClosed
  <2> QED BY <2>1, <2>2
<1>13. ASSUME NEW t \in Thread, Borrow(t) PROVE LateInv'
  <2>1. ASSUME NEW u \in Thread, u # t PROVE LateOf(u)'
    BY <1>13, <2>1 DEF Borrow, Raise, Done, Goto, source
  <2>2. LateOf(t)'
    BY <1>13 DEF Borrow, Raise, Done, Goto, source, Single, Batch, ToldClosed
  <2> QED BY <2>1, <2>2
<1>14. ASSUME NEW t \in Thread, Advance(t) PROVE LateInv'
  <2>1. ASSUME NEW u \in Thread, u # t PROVE LateOf(u)'
    BY <1>14, <2>1 DEF Advance, Raise, Done, Goto, source
  <2>2. LateOf(t)'
    BY <1>14 DEF Advance, Raise, Done, Goto, source, Single, Batch, ToldClosed
  <2> QED BY <2>1, <2>2
<1>15. ASSUME NEW t \in Thread, Convert(t) PROVE LateInv'
  <2>1. ASSUME NEW u \in Thread, u # t PROVE LateOf(u)'
    BY <1>15, <2>1 DEF Convert, Raise, Done, source
  <2>2. LateOf(t)'
    BY <1>15 DEF Convert, Raise, Done, source, Single, Batch, ToldClosed
  <2> QED BY <2>1, <2>2
<1>16. ASSUME NEW t \in Thread, Finish(t) PROVE LateInv'
  <2>1. ASSUME NEW u \in Thread, u # t PROVE LateOf(u)'
    BY <1>16, <2>1 DEF Finish, Release, Idle, NewFrame, NoRet
  <2>2. LateOf(t)'
    BY <1>16 DEF Finish, Release, Idle, NewFrame, NoRet, Single, Batch, ToldClosed
  <2> QED BY <2>1, <2>2
<1>17. ASSUME NEW i \in Iter, DropIter(i) PROVE LateInv'
  BY <1>17 DEF DropIter, Release
<1>18. CASE DropReader
  BY <1>18 DEF DropReader
<1>19. CASE UNCHANGED vars \/ Over
  <2>1. UNCHANGED <<slot, pc, call, ret>>
    BY <1>19 DEF vars, source, Over
  <2> QED BY <2>1
<1> QED
  BY <1>1, <1>2, <1>3, <1>4, <1>5, <1>6, <1>7, <1>8, <1>9, <1>10, <1>11, <1>12,
     <1>13, <1>14, <1>15, <1>16, <1>17, <1>18, <1>19 DEF Next, Step

-----------------------------------------------------------------------------

\* The invariant holds in every reachable state.
LEMMA Invariance == Spec => []IInv
<1>1. IInv /\ [Next]_vars => IInv'
  BY TypedStep, CountStep, ControlStep, OwnerStep, IterStep, LateStep DEF IInv
<1> QED BY InitInv, <1>1, PTL DEF Spec

\* Every variable has its type: no frame drops a count it does not own.
THEOREM TypeCorrect == Spec => []TypeOK
<1>1. IInv => TypeOK
  BY CountIsNatural DEF IInv, Typed, TypeOK
<1> QED BY Invariance, <1>1, PTL

\* The strong count is the number of owners, and the bytes are mapped exactly while there
\* is one (ArcSwapOption, load guards, the Arc of each iterator).
THEOREM CountIsExact == Spec => []CountExact
<1>1. IInv => CountExact
  BY DEF IInv
<1> QED BY Invariance, <1>1, PTL

\* Whatever close() and deallocation do, every read of the tree or the data section, by a
\* lookup, a batch, metadata() or an iterator, finds the bytes mapped.
THEOREM ReadsAreMapped == Spec => []NoUseAfterUnmap
<1>1. ASSUME IInv, NEW c \in leases PROVE mapped
  <2>1. IsFiniteSet(leases) /\ Cardinality(leases) \in Nat
    BY <1>1, FiniteLeases DEF IInv
  <2>2. Cardinality(leases) # 0
    BY <1>1, <2>1, FS_EmptySet
  <2>3. strong > 0
    BY <1>1, <2>1, <2>2 DEF IInv, CountExact
  <2> QED BY <1>1, <2>3 DEF IInv, CountExact
<1>2. IInv => NoUseAfterUnmap
  <2> SUFFICES ASSUME IInv, NEW t \in Thread
               PROVE  /\ pc[t] \in {"lookup", "copy", "build"} => t \in leases /\ mapped
                      /\ pc[t] = "advance" => call[t].iter \in leases /\ mapped
    BY DEF NoUseAfterUnmap
  <2>1. CASE pc[t] \in {"lookup", "copy", "build"}
    <3>1. t \in leases
      BY <2>1 DEF IInv, OwnerInv, OwnerOf
    <3> QED BY <1>1, <2>1, <3>1
  <2>2. CASE pc[t] = "advance"
    <3>1. call[t].iter \in leases
      BY <2>2 DEF IInv, ControlInv, ControlOf, IterInv, IterOf
    <3> QED BY <1>1, <2>2, <3>1
  <2> QED BY <2>1, <2>2
<1> QED BY Invariance, <1>2, PTL

\* Threads that share an iterator are never both inside its next().
THEOREM NextIsExclusive == Spec => []OneBorrower
<1>1. IInv => OneBorrower
  BY DEF IInv, IterInv, IterOf, OneBorrower
<1> QED BY Invariance, <1>1, PTL

\* Only a call that has no result yet is told that the database is closed, and only once
\* it is: close() never tears a batch.
THEOREM BatchesAreNotTorn == Spec => []ClosedIsNeverPartial
<1>1. IInv => ClosedIsNeverPartial
  BY DEF IInv, LateInv, LateOf, OwnerInv, OwnerOf, ClosedIsNeverPartial
<1> QED BY Invariance, <1>1, PTL

\* A call that begins after close() gets no data.
THEOREM CloseIsFinal == Spec => []LateCallsGetNothing
<1>1. IInv => LateCallsGetNothing
  BY DEF IInv, LateInv, LateOf, LateCallsGetNothing
<1> QED BY Invariance, <1>1, PTL
-----------------------------------------------------------------------------

\* A step of one thread leaves the frames of the others alone.
LEMMA OthersWait ==
  ASSUME Typed, NEW t \in Thread, NEW u \in Thread, u # t, Call(t) \/ Step(t)
  PROVE  pc'[u] = pc[u] /\ call'[u] = call[u] /\ ret'[u] = ret[u]
<1> USE DEF Typed, Goto, Done, Raise
<1>1. CASE Call(t)
  BY <1>1 DEF Call
<1>2. CASE ParseIp(t)
  BY <1>2 DEF ParseIp
<1>3. CASE ParsePath(t) \/ Check(t) \/ Iterate(t) \/ NextItem(t)
  BY <1>3 DEF ParsePath, Check, Iterate, NextItem
<1>4. CASE Load(t) \/ Copy(t) \/ Peek(t) \/ Store(t)
  <2>1. call' = call
    BY <1>4 DEF Load, Copy, Peek, Store
  <2> QED BY <1>4, <2>1 DEF Load, Copy, Peek, Store
<1>5. CASE Lookup(t)
  BY <1>5 DEF Lookup
<1>6. CASE Build(t) \/ Borrow(t) \/ Advance(t) \/ Convert(t)
  <2>1. call' = call
    BY <1>6 DEF Build, Borrow, Advance, Convert
  <2> QED BY <1>6, <2>1 DEF Build, Borrow, Advance, Convert
<1>7. CASE Finish(t)
  BY <1>7 DEF Finish
<1> QED BY <1>1, <1>2, <1>3, <1>4, <1>5, <1>6, <1>7 DEF Step

\* Feeding an item leaves what was answered before.
LEMMA ItemFed ==
  ASSUME NEW fed \in Seq(Ip), NEW ip \in Ip
  PROVE  /\ Append(fed, ip) # <<>>
         /\ Len(Append(fed, ip)) - 1 = Len(fed)
         /\ \A k \in 1..Len(fed) : Append(fed, ip)[k] = fed[k]
<1>1. Len(fed) \in Nat /\ Len(Append(fed, ip)) = Len(fed) + 1
  BY LenProperties, AppendProperties
<1>2. \A n \in Nat : (n + 1) - 1 = n
  OBVIOUS
<1>3. \A k \in 1..Len(fed) : Append(fed, ip)[k] = fed[k]
  BY AppendProperties
<1> QED BY <1>1, <1>2, <1>3, AppendProperties

\* One more answer, that of the item fed last, answers all of them.
LEMMA ItemAnswered ==
  ASSUME NEW fed \in Seq(Ip), fed # <<>>, NEW objects,
         objects = [k \in 1..(Len(fed) - 1) |-> Record(fed[k])]
  PROVE  Append(objects, Record(fed[Len(fed)])) = [k \in 1..Len(fed) |-> Record(fed[k])]
<1> DEFINE R == {Record(fed[k]) : k \in 1..Len(fed)}
           all == [k \in 1..Len(fed) |-> Record(fed[k])]
<1>1. Len(fed) \in Nat /\ Len(fed) # 0
  BY LenProperties, EmptySeq
<1>2. PICK n \in Nat : n = Len(fed) - 1 /\ n + 1 = Len(fed)
  BY <1>1
<1>3. objects = [k \in 1..n |-> Record(fed[k])] /\ \A k \in 1..n : Record(fed[k]) \in R
  BY <1>2
<1>4. objects \in Seq(R) /\ Len(objects) = n
  BY <1>3, SeqDef, LenProperties
<1>5. all \in Seq(R) /\ Len(all) = n + 1
  BY <1>2, SeqDef, LenProperties
<1>6. Record(fed[n + 1]) \in R
  BY <1>2
<1>7. /\ Append(objects, Record(fed[n + 1])) \in Seq(R)
      /\ Len(Append(objects, Record(fed[n + 1]))) = n + 1
      /\ \A k \in 1..n : Append(objects, Record(fed[n + 1]))[k] = objects[k]
      /\ Append(objects, Record(fed[n + 1]))[n + 1] = Record(fed[n + 1])
  BY <1>4, <1>6, AppendProperties
<1>8. \A k \in 1..(n + 1) : Append(objects, Record(fed[n + 1]))[k] = all[k]
  BY <1>2, <1>3, <1>7
<1>9. Append(objects, Record(fed[n + 1])) = all
  <2> HIDE DEF all, R
  <2> QED BY <1>5, <1>7, <1>8, SeqEqual
<1> QED BY <1>2, <1>9

\* Where a batch has an answer for every item it was fed.
Between == {"load", "check", "parse_path", "iterate", "items", "parse_ip"}

\* Every step keeps a batch's results those of its items.
LEMMA BatchStep == IInv /\ BatchInv /\ [Next]_vars => BatchInv'
<1> SUFFICES ASSUME Typed, ControlInv, BatchInv, [Next]_vars PROVE BatchInv'
  BY DEF IInv
<1> USE DEF Typed
<1>1. ASSUME NEW t \in Thread, Call(t) \/ Step(t), BatchOf(t)' PROVE BatchInv'
  <2> SUFFICES ASSUME NEW u \in Thread, u # t PROVE BatchOf(u)'
    BY <1>1 DEF BatchInv
  <2>1. pc'[u] = pc[u] /\ call'[u] = call[u] /\ ret'[u] = ret[u]
    BY <1>1, OthersWait
  <2> QED BY <2>1 DEF BatchInv, BatchOf, Answers
<1>2. ASSUME NEW t \in Thread, call' = call, pc[t] \in Between,
             NEW label \in Between, Goto(t, label)
      PROVE  BatchOf(t)'
  <2>1. pc'[t] = label /\ pc'[t] \in Between
    BY <1>2 DEF Goto
  <2>2. call[t].method \in Batch => Answers(t, Len(call[t].fed))
    BY <1>2 DEF BatchInv, BatchOf, Between
  <2>3. call[t].method \in Batch => Answers(t, Len(call[t].fed))'
    BY <1>2, <2>2 DEF Answers
  <2> QED BY <1>2, <2>1, <2>3 DEF BatchOf, Between
<1>3. ASSUME NEW t \in Thread, call'[t] = call[t], ret'[t].tag # "ok", pc'[t] = "done"
      PROVE  BatchOf(t)'
  BY <1>3 DEF BatchOf
<1>4. ASSUME NEW t \in Thread, NEW tag, tag # "ok", Raise(t, tag), UNCHANGED call
      PROVE  BatchOf(t)'
  BY <1>3, <1>4 DEF Raise, Done
<1>5. ASSUME NEW t \in Thread, call'[t].method \notin Batch PROVE BatchOf(t)'
  BY <1>5 DEF BatchOf
<1>6. ASSUME NEW t \in Thread, Call(t) PROVE BatchInv'
  <2>1. PICK m \in Method, i \in Iter \cup {None} :
          /\ call' = [call EXCEPT ![t] = NewFrame(m, i, IF slot THEN "open" ELSE "closed")]
          /\ Goto(t, Entry(m))
    BY <1>6 DEF Call
  <2>2. call'[t].fed = <<>> /\ call'[t].objects = <<>> /\ call'[t].method = m
    BY <2>1 DEF NewFrame
  <2>3. Answers(t, Len(call[t].fed))'
    <3>1. Len(call'[t].fed) = 0 /\ 1..0 = {}
      BY <2>2, EmptySeq
    <3>2. <<>> = [k \in {} |-> Record(call'[t].fed[k])]
      OBVIOUS
    <3> QED BY <2>2, <3>1, <3>2 DEF Answers
  <2>4. m \in Batch => pc'[t] = "load"
    BY <2>1 DEF Goto, Entry, Single, Batch
  <2>5. BatchOf(t)'
    BY <2>2, <2>3, <2>4 DEF BatchOf
  <2> QED BY <1>1, <1>6, <2>5
<1>7. ASSUME NEW t \in Thread, ParseIp(t) PROVE BatchInv'
  <2>1. ASSUME NEW ip \in Ip, call' = [call EXCEPT ![t].fed = Append(@, ip)],
               call[t].method \in Batch, Goto(t, "lookup")
        PROVE  BatchOf(t)'
    <3>1. call[t].fed \in Seq(Ip) /\ pc[t] = "parse_ip" /\ pc'[t] = "lookup"
      BY <1>7, <2>1 DEF ParseIp, Frame, Goto
    <3>2. /\ call'[t].fed = Append(call[t].fed, ip) /\ call'[t].method = call[t].method
          /\ call'[t].objects = call[t].objects
      BY <2>1 DEF Frame
    <3>3. Answers(t, Len(call[t].fed))
      BY <2>1, <3>1 DEF BatchInv, BatchOf
    <3>4. /\ call'[t].fed # <<>> /\ Len(call'[t].fed) - 1 = Len(call[t].fed)
          /\ \A k \in 1..Len(call[t].fed) : call'[t].fed[k] = call[t].fed[k]
      BY <3>1, <3>2, ItemFed
    <3>5. Answers(t, Len(call[t].fed) - 1)'
      BY <3>2, <3>3, <3>4 DEF Answers
    <3> QED BY <3>1, <3>4, <3>5 DEF BatchOf
  <2>2. ASSUME NEW ip \in Ip, call' = [call EXCEPT ![t].fed = Append(@, ip)],
               call[t].method \notin Batch
        PROVE  BatchOf(t)'
    BY <1>5, <2>2 DEF Frame
  <2>3. ASSUME NEW ip \in Ip, call' = [call EXCEPT ![t].fed = Append(@, ip)],
               Goto(t, CASE call[t].method \in Batch      -> "lookup"
                         [] call[t].method = "get_path"  -> "parse_path"
                         [] OTHER                        -> "load")
        PROVE  BatchOf(t)'
    <3>1. CASE call[t].method \in Batch
      <4>1. Goto(t, "lookup")
        BY <2>3, <3>1 DEF Batch
      <4> QED BY <2>1, <2>3, <3>1, <4>1
    <3> QED BY <2>2, <2>3, <3>1
  <2>4. BatchOf(t)'
    <3>1. CASE Raise(t, "bad_ip") /\ UNCHANGED call
      BY <1>4, <3>1
    <3>2. CASE Raise(t, "wrong_family") /\ UNCHANGED call
      BY <1>4, <3>2
    <3> QED BY <1>7, <2>3, <3>1, <3>2 DEF ParseIp, Ip
  <2> QED BY <1>1, <1>7, <2>4 DEF Step
<1>8. ASSUME NEW t \in Thread, ParsePath(t) \/ Check(t) \/ Iterate(t) PROVE BatchInv'
  <2>1. call' = call /\ pc[t] \in {"parse_path", "check", "iterate"}
    BY <1>8 DEF ParsePath, Check, Iterate
  <2>2. ASSUME NEW label \in {"iterate", "parse_path", "items"}, Goto(t, label) PROVE BatchOf(t)'
    BY <1>2, <2>1, <2>2 DEF Between
  <2>3. call[t].method = "get_path" => BatchOf(t)'
    BY <1>5, <2>1 DEF Batch
  <2>4. BatchOf(t)'
    BY <1>4, <1>8, <2>1, <2>2, <2>3 DEF ParsePath, Check, Iterate
  <2> QED BY <1>1, <1>8, <2>4 DEF Step
<1>9. ASSUME NEW t \in Thread, NextItem(t) PROVE BatchInv'
  <2>1. call' = call /\ pc[t] = "items"
    BY <1>9 DEF NextItem
  <2>2. ASSUME Done(t, "ok", call[t].objects) PROVE BatchOf(t)'
    <3>1. pc'[t] = "done" /\ ret'[t].vals = call[t].objects
      BY <2>2 DEF Done
    <3>2. call[t].method \in Batch => Answers(t, Len(call[t].fed))
      BY <2>1 DEF BatchInv, BatchOf
    <3>3. call[t].method \in Batch => Answers(t, Len(call[t].fed))'
      BY <2>1, <3>2 DEF Answers
    <3> QED BY <2>1, <3>1, <3>3 DEF BatchOf
  <2>3. ASSUME Goto(t, "parse_ip") PROVE BatchOf(t)'
    BY <1>2, <2>1, <2>3 DEF Between
  <2>4. ASSUME Raise(t, "raised") PROVE BatchOf(t)'
    BY <1>4, <2>1, <2>4
  <2>5. BatchOf(t)'
    BY <1>9, <2>2, <2>3, <2>4 DEF NextItem
  <2> QED BY <1>1, <1>9, <2>5 DEF Step
<1>10. ASSUME NEW t \in Thread, Load(t) PROVE BatchInv'
  <2>1. call' = call /\ pc[t] = "load"
    BY <1>10 DEF Load
  <2>2. ASSUME Goto(t, AfterLoad(call[t].method)) PROVE BatchOf(t)'
    <3>1. CASE call[t].method \in Batch
      <4>1. Goto(t, "check")
        BY <2>2, <3>1 DEF AfterLoad, Single, Batch
      <4> QED BY <1>2, <2>1, <4>1 DEF Between
    <3>2. CASE call[t].method \notin Batch
      <4>1. call'[t].method \notin Batch
        BY <2>1, <3>2
      <4> QED BY <1>5, <4>1
    <3> QED BY <3>1, <3>2
  <2>3. ASSUME NEW tag \in {"closed_os", "closed"}, Raise(t, tag) PROVE BatchOf(t)'
    BY <1>4, <2>1, <2>3
  <2>4. BatchOf(t)'
    BY <1>10, <2>2, <2>3 DEF Load
  <2> QED BY <1>1, <1>10, <2>4 DEF Step
<1>11. ASSUME NEW t \in Thread, Lookup(t) PROVE BatchInv'
  <2>1. pc[t] = "lookup"
    BY <1>11 DEF Lookup
  <2>2. ASSUME Current(t) \notin Corrupt, call[t].method \in Batch,
               call' = [call EXCEPT ![t].objects = Append(@, Record(Current(t)))],
               Goto(t, "items")
        PROVE  BatchOf(t)'
    <3>1. call[t].fed \in Seq(Ip) /\ call[t].fed # <<>> /\ Answers(t, Len(call[t].fed) - 1)
      BY <2>1, <2>2 DEF BatchInv, BatchOf, Frame
    <3>2. /\ call'[t].fed = call[t].fed /\ call'[t].method = call[t].method
          /\ call'[t].objects = Append(call[t].objects, Record(call[t].fed[Len(call[t].fed)]))
      BY <2>2 DEF Frame, Current
    <3>3. call'[t].objects = [k \in 1..Len(call[t].fed) |-> Record(call[t].fed[k])]
      BY <3>1, <3>2, ItemAnswered DEF Answers
    <3>4. \A k \in 1..Len(call[t].fed) : call[t].fed[k] \notin Corrupt
      <4>1. \A n \in Nat : \A k \in 1..n : k \in 1..(n - 1) \/ k = n
        OBVIOUS
      <4>2. \A k \in 1..Len(call[t].fed) : k \in 1..(Len(call[t].fed) - 1) \/ k = Len(call[t].fed)
        BY <3>1, <4>1, LenProperties
      <4> QED BY <2>2, <3>1, <4>2 DEF Answers, Current
    <3>5. pc'[t] = "items"
      BY <2>2 DEF Goto
    <3> QED BY <3>2, <3>3, <3>4, <3>5 DEF BatchOf, Answers
  <2>3. call' = call /\ call[t].method \in Single => BatchOf(t)'
    BY <1>5 DEF Single, Batch
  <2>4. BatchOf(t)'
    BY <1>4, <1>11, <2>2, <2>3 DEF Lookup
  <2> QED BY <1>1, <1>11, <2>4 DEF Step
<1>12. ASSUME NEW t \in Thread, Copy(t) \/ Peek(t) \/ Store(t) \/ Build(t) \/ Borrow(t)
                                  \/ Advance(t) \/ Convert(t)
       PROVE  BatchInv'
  <2>1. call' = call
    BY <1>12 DEF Copy, Peek, Store, Build, Borrow, Advance, Convert
  <2>2. CASE call[t].method \notin Batch
    BY <1>1, <1>5, <1>12, <2>1, <2>2 DEF Step
  <2>3. CASE call[t].method \in Batch
    <3>1. pc[t] \in {"copy", "store", "build"}
      BY <1>12, <2>3 DEF Copy, Peek, Store, Build, Borrow, Advance, Convert, ControlInv, ControlOf, Batch
    <3>2. FALSE
      BY <2>3, <3>1 DEF ControlInv, ControlOf, Batch
    <3> QED BY <3>2
  <2> QED BY <2>2, <2>3
<1>13. ASSUME NEW t \in Thread, Finish(t) PROVE BatchInv'
  <2>1. call'[t].method = "none"
    BY <1>13 DEF Finish, Idle, NewFrame
  <2> QED BY <1>1, <1>5, <1>13, <2>1 DEF Step, Batch
<1>14. CASE UNCHANGED <<pc, call, ret>>
  BY <1>14 DEF BatchInv, BatchOf, Answers
<1>15. UNCHANGED vars \/ Over \/ DropReader \/ (\E i \in Iter : DropIter(i)) => UNCHANGED <<pc, call, ret>>
  BY DEF vars, Over, DropReader, DropIter
<1> QED
  BY <1>6, <1>7, <1>8, <1>9, <1>10, <1>11, <1>12, <1>13, <1>14, <1>15 DEF Next, Step

\* A batch that succeeds has the record of each of its items, in order, and none of them
\* was corrupt: close(), other threads and the caller's iterator change nothing about it.
THEOREM BatchIsComplete == Spec => []BatchComplete
<1>1. Init => BatchInv
  BY DEF Init, BatchInv, BatchOf, Idle, NewFrame, Batch
<1>2. IInv /\ BatchInv => BatchComplete
  <2> SUFFICES ASSUME IInv, BatchInv, NEW t \in Thread,
                      pc[t] = "done", call[t].method \in Batch, ret[t].tag = "ok"
               PROVE  /\ ret[t].vals = [k \in DOMAIN call[t].fed |-> Record(call[t].fed[k])]
                      /\ \A k \in DOMAIN call[t].fed : call[t].fed[k] \notin Corrupt
    BY DEF BatchComplete
  <2>1. Answers(t, Len(call[t].fed)) /\ ret[t].vals = call[t].objects
    BY DEF BatchInv, BatchOf
  <2>2. DOMAIN call[t].fed = 1..Len(call[t].fed)
    BY LenProperties DEF IInv, Typed, Frame
  <2> QED BY <2>1, <2>2 DEF Answers
<1> QED BY <1>1, <1>2, BatchStep, Invariance, PTL DEF Spec
-----------------------------------------------------------------------------

\* The memory is mapped exactly while the reader is open or somebody has a count: what
\* every step of ReaderLease that changes one of them settles.
MappedWhileHeld == mapped = (slot \/ leases # {})

\* That is the exact count, in the words of ReaderLease.
LEMMA Held == IInv => MappedWhileHeld
<1> SUFFICES ASSUME IInv PROVE MappedWhileHeld
  OBVIOUS
<1>1. IsFiniteSet(leases) /\ Cardinality(leases) \in Nat
  BY FiniteLeases DEF IInv
<1>2. Cardinality(leases) = 0 <=> leases = {}
  BY <1>1, FS_EmptySet
<1>3. mapped <=> strong > 0
  BY DEF IInv, CountExact
<1>4. CASE slot
  <2>1. strong > 0
    BY <1>1, <1>4 DEF IInv, CountExact
  <2> QED BY <1>3, <1>4, <2>1 DEF IInv, Typed, MappedWhileHeld
<1>5. CASE ~slot
  <2>1. strong = Cardinality(leases)
    BY <1>1, <1>5 DEF IInv, CountExact
  <2>2. strong > 0 <=> leases # {}
    BY <1>1, <1>2, <2>1
  <2> QED BY <1>3, <1>5, <2>2 DEF IInv, Typed, MappedWhileHeld
<1> QED BY <1>4, <1>5

\* The phase of each thread, as ReaderLease sees it.
AbsPhase == [t \in Thread |-> AbstractPhase(t)]

\* A step of one thread moves its own phase only.
LEMMA PhaseAlone ==
  ASSUME Typed, NEW t \in Thread, Call(t) \/ Step(t)
  PROVE  /\ AbsPhase' = [AbsPhase EXCEPT ![t] = AbstractPhase(t)']
         /\ AbsPhase[t] = AbstractPhase(t)
<1>1. ASSUME NEW u \in Thread \ {t} PROVE AbstractPhase(u)' = AbstractPhase(u)
  <2>1. pc'[u] = pc[u] /\ call'[u] = call[u] /\ ret'[u] = ret[u]
    BY <1>1, OthersWait
  <2> QED BY <2>1 DEF AbstractPhase
<1> QED BY <1>1 DEF AbsPhase

\* A thread inside a call is asking, or pulling from an iterator.
LEMMA InsidePhase ==
  ASSUME NEW t \in Thread, pc[t] \notin {"idle", "done"}
  PROVE  AbstractPhase(t) = IF call[t].method = "next" THEN "pulling" ELSE "asking"
BY DEF AbstractPhase

\* A call that goes on without taking or dropping anything shows nothing.
LEMMA GoesOn ==
  ASSUME Typed, NEW t \in Thread, Call(t) \/ Step(t), UNCHANGED <<slot, mapped, leases>>,
         pc[t] \notin {"idle", "done"}, pc'[t] \notin {"idle", "done"},
         call'[t].method = call[t].method
  PROVE  UNCHANGED Lease!vars
<1>1. AbstractPhase(t)' = AbstractPhase(t)
  BY DEF AbstractPhase
<1>2. AbsPhase' = AbsPhase
  BY <1>1, PhaseAlone DEF AbsPhase
<1> QED BY <1>2 DEF Lease!vars, AbsPhase

\* An exception that is not about closing is ReaderLease's Fail.
LEMMA RaiseFails ==
  ASSUME Typed, NEW t \in Thread, Step(t), UNCHANGED <<slot, mapped, leases>>,
         pc[t] \notin {"idle", "done"}, NEW tag \in Tag, tag \notin ToldClosed \cup {"ok"},
         Raise(t, tag)
  PROVE  Lease!Fail(t)
<1>1. pc'[t] = "done" /\ ret'[t].tag = tag
  BY DEF Raise, Done, Typed
<1>2. AbstractPhase(t)' = "failed"
  BY <1>1 DEF AbstractPhase
<1>3. AbstractPhase(t) \in {"asking", "pulling"}
  BY InsidePhase
<1>4. /\ AbsPhase' = [AbsPhase EXCEPT ![t] = AbstractPhase(t)']
      /\ AbsPhase[t] = AbstractPhase(t)
  BY PhaseAlone
<1> QED BY <1>2, <1>3, <1>4 DEF Lease!Fail, Lease!Becomes, AbsPhase

\* A call of the reader that returns in the middle of its own lease answers.
LEMMA DoneAnswers ==
  ASSUME Typed, NEW t \in Thread, Step(t), UNCHANGED <<slot, mapped, leases>>,
         pc[t] \notin {"idle", "done"}, NEW vals, Done(t, "ok", vals),
         IF call[t].method = "next" THEN Iter \cap leases # {} ELSE t \in leases
  PROVE  Lease!Answer(t)
<1>1. pc'[t] = "done" /\ ret'[t].tag = "ok"
  BY DEF Done, Typed
<1>2. AbstractPhase(t)' = "answered"
  BY <1>1 DEF AbstractPhase, ToldClosed
<1>3. AbstractPhase(t) = IF call[t].method = "next" THEN "pulling" ELSE "asking"
  BY InsidePhase
<1>4. /\ AbsPhase' = [AbsPhase EXCEPT ![t] = AbstractPhase(t)']
      /\ AbsPhase[t] = AbstractPhase(t)
  BY PhaseAlone
<1> QED BY <1>2, <1>3, <1>4 DEF Lease!Answer, Lease!Becomes, AbsPhase

\* A call that learns that the database is closed is refused.
LEMMA ClosedRefuses ==
  ASSUME Typed, NEW t \in Thread, Step(t), UNCHANGED <<slot, mapped, leases>>, ~slot,
         pc[t] \notin {"idle", "done"}, call[t].method # "next",
         NEW tag \in ToldClosed, Done(t, tag, <<>>)
  PROVE  Lease!Refuse(t)
<1>1. pc'[t] = "done" /\ ret'[t].tag = tag
  BY DEF Done, Typed
<1>2. AbstractPhase(t)' = "refused"
  BY <1>1 DEF AbstractPhase, ToldClosed
<1>3. AbstractPhase(t) = "asking"
  BY InsidePhase
<1>4. /\ AbsPhase' = [AbsPhase EXCEPT ![t] = AbstractPhase(t)']
      /\ AbsPhase[t] = AbstractPhase(t)
  BY PhaseAlone
<1> QED BY <1>2, <1>3, <1>4 DEF Lease!Refuse, Lease!Becomes, AbsPhase

\* Every step of a thread is one of ReaderLease or shows nothing.
LEMMA ThreadRefines ==
  ASSUME IInv, MappedWhileHeld', NEW t \in Thread, Call(t) \/ Step(t)
  PROVE  Lease!Next \/ UNCHANGED Lease!vars
<1> USE DEF IInv
<1>1. /\ AbsPhase' = [AbsPhase EXCEPT ![t] = AbstractPhase(t)']
      /\ AbsPhase[t] = AbstractPhase(t)
  BY PhaseAlone
<1>2. /\ pc \in [Thread -> Label] /\ call \in [Thread -> Frame] /\ ret \in [Thread -> Result]
      /\ ControlOf(t) /\ OwnerOf(t) /\ IterOf(t)
  BY DEF Typed, ControlInv, OwnerInv, IterInv
<1>3. CASE Call(t)
  <2>1. PICK m \in Method, i \in Iter \cup {None} :
          /\ IF m = "next" THEN i \in leases ELSE i = None /\ ~gone
          /\ call' = [call EXCEPT ![t] = NewFrame(m, i, IF slot THEN "open" ELSE "closed")]
          /\ Goto(t, Entry(m))
    BY <1>3 DEF Call
  <2>2. pc[t] = "idle" /\ UNCHANGED <<slot, mapped, leases>>
    BY <1>3 DEF Call, source
  <2>3. call'[t].method = m
    BY <1>2, <2>1 DEF NewFrame
  <2>4. pc'[t] \notin {"idle", "done"}
    BY <1>2, <2>1, MethodAssumption DEF Goto, Entry, Single, Batch
  <2>5. AbstractPhase(t) = "idle"
    BY <2>2 DEF AbstractPhase
  <2>6. AbstractPhase(t)' = IF m = "next" THEN "pulling" ELSE "asking"
    BY <2>3, <2>4 DEF AbstractPhase
  <2>7. CASE m = "next"
    <3>1. i \in Iter \cap leases
      BY <2>1, <2>7, ClientsAssumption DEF Typed
    <3>2. Lease!Pull(t)
      BY <1>1, <2>2, <2>5, <2>6, <2>7, <3>1 DEF Lease!Pull, Lease!Becomes, AbsPhase
    <3> QED BY <3>2 DEF Lease!Next
  <2>8. CASE m # "next"
    <3>1. Lease!Ask(t)
      BY <1>1, <2>2, <2>5, <2>6, <2>8 DEF Lease!Ask, Lease!Becomes, AbsPhase
    <3> QED BY <3>1 DEF Lease!Next
  <2> QED BY <2>7, <2>8
<1>4. ASSUME NEW label \in Label \ {"idle", "done"}, Goto(t, label), Step(t),
             pc[t] \notin {"idle", "done"}, UNCHANGED <<slot, mapped, leases>>,
             call'[t].method = call[t].method
      PROVE  UNCHANGED Lease!vars
  <2>1. pc'[t] = label
    BY <1>2, <1>4 DEF Goto
  <2> QED BY <1>4, <2>1, GoesOn
<1>5. ASSUME NEW tag \in Tag, tag \notin ToldClosed \cup {"ok"}, Raise(t, tag), Step(t),
             pc[t] \notin {"idle", "done"}, UNCHANGED <<slot, mapped, leases>>
      PROVE  Lease!Next
  <2>1. Lease!Fail(t)
    BY <1>5, RaiseFails
  <2> QED BY <2>1 DEF Lease!Next
<1>6. CASE ParseIp(t)
  <2>1. Step(t) /\ pc[t] = "parse_ip" /\ UNCHANGED <<slot, mapped, leases>>
    BY <1>6 DEF ParseIp, source, Step
  <2>2. ASSUME NEW ip \in Ip, call' = [call EXCEPT ![t].fed = Append(@, ip)],
               NEW label \in {"lookup", "parse_path", "load"}, Goto(t, label)
        PROVE  UNCHANGED Lease!vars
    <3>1. call'[t].method = call[t].method
      BY <1>2, <2>2 DEF Frame
    <3> QED BY <1>4, <2>1, <2>2, <3>1 DEF Label
  <2>3. ASSUME NEW tag \in {"bad_ip", "wrong_family"}, Raise(t, tag) PROVE Lease!Next
    BY <1>5, <2>1, <2>3 DEF Tag, ToldClosed
  <2> QED BY <1>6, <2>2, <2>3 DEF ParseIp, Ip
<1>7. CASE ParsePath(t) \/ Check(t) \/ Iterate(t)
  <2>1. /\ Step(t) /\ pc[t] \in {"parse_path", "check", "iterate"}
        /\ UNCHANGED <<slot, mapped, leases, call>>
    BY <1>7 DEF ParsePath, Check, Iterate, source, Step
  <2>2. ASSUME NEW label \in {"load", "iterate", "parse_path", "items"}, Goto(t, label)
        PROVE  UNCHANGED Lease!vars
    BY <1>4, <2>1, <2>2 DEF Label
  <2>3. ASSUME NEW tag \in {"bad_path", "bad_iterable"}, Raise(t, tag) PROVE Lease!Next
    BY <1>5, <2>1, <2>3 DEF Tag, ToldClosed
  <2> QED BY <1>7, <2>2, <2>3 DEF ParsePath, Check, Iterate
<1>8. CASE NextItem(t)
  <2>1. Step(t) /\ pc[t] = "items" /\ UNCHANGED <<slot, mapped, leases, call>>
    BY <1>8 DEF NextItem, source, Step
  <2>2. CASE Goto(t, "parse_ip")
    BY <1>4, <2>1, <2>2 DEF Label
  <2>3. CASE Raise(t, "raised")
    BY <1>5, <2>1, <2>3 DEF Tag, ToldClosed
  <2>4. CASE Done(t, "ok", call[t].objects)
    <3>1. call[t].method # "next" /\ t \in leases
      BY <1>2, <2>1 DEF ControlOf, OwnerOf, Batch
    <3>2. Lease!Answer(t)
      BY <2>1, <2>4, <3>1, DoneAnswers
    <3> QED BY <3>2 DEF Lease!Next
  <2> QED BY <1>8, <2>2, <2>3, <2>4 DEF NextItem
<1>9. CASE Load(t)
  <2>1. Step(t) /\ pc[t] = "load" /\ UNCHANGED <<slot, mapped, call>>
    BY <1>9 DEF Load, Step
  <2>2. call[t].method \in Single \cup Batch \cup {"metadata", "iter"}
    BY <1>2, <2>1 DEF ControlOf
  <2>3. CASE slot
    <3>1. Goto(t, AfterLoad(call[t].method)) /\ leases' = leases \cup {t}
      BY <1>9, <2>3 DEF Load, Acquire
    <3>2. pc'[t] \in {"lookup", "check", "copy", "build"}
      BY <1>2, <2>2, <3>1 DEF Goto, AfterLoad, Single, Batch
    <3>3. AbstractPhase(t) = "asking" /\ AbstractPhase(t)' = "asking"
      BY <2>1, <2>2, <3>2 DEF AbstractPhase, Single, Batch
    <3>4. AbsPhase' = AbsPhase
      BY <1>1, <3>3 DEF AbsPhase
    <3>5. Lease!Settle
      BY <2>1, <3>1 DEF Lease!Settle, MappedWhileHeld
    <3>6. Lease!Grant(t)
      BY <1>1, <2>1, <2>3, <3>1, <3>3, <3>4, <3>5 DEF Lease!Grant, AbsPhase
    <3> QED BY <3>6 DEF Lease!Next
  <2>4. CASE ~slot
    <3>1. PICK tag \in {"closed_os", "closed"} : Done(t, tag, <<>>)
      BY <1>9, <2>4 DEF Load, Raise
    <3>2. leases' = leases
      BY <1>9, <2>4 DEF Load
    <3>3. Lease!Refuse(t)
      BY <2>1, <2>2, <2>4, <3>1, <3>2, ClosedRefuses DEF ToldClosed, Single, Batch
    <3> QED BY <3>3 DEF Lease!Next
  <2> QED BY <2>3, <2>4
<1>10. CASE Lookup(t)
  <2>1. Step(t) /\ pc[t] = "lookup" /\ UNCHANGED <<slot, mapped, leases>>
    BY <1>10 DEF Lookup, source, Step
  <2>2. CASE Raise(t, "bad_data")
    BY <1>5, <2>1, <2>2 DEF Tag, ToldClosed
  <2>3. CASE Done(t, "ok", <<Record(Current(t))>>)
    <3>1. call[t].method # "next" /\ t \in leases
      BY <1>2, <2>1 DEF ControlOf, OwnerOf, Single, Batch
    <3>2. Lease!Answer(t)
      BY <2>1, <2>3, <3>1, DoneAnswers
    <3> QED BY <3>2 DEF Lease!Next
  <2>4. CASE /\ call' = [call EXCEPT ![t].objects = Append(@, Record(Current(t)))]
             /\ Goto(t, "items")
    <3>1. call'[t].method = call[t].method
      BY <1>2, <2>4 DEF Frame
    <3> QED BY <1>4, <2>1, <2>4, <3>1 DEF Label
  <2> QED BY <1>10, <2>2, <2>3, <2>4 DEF Lookup
<1>11. CASE Copy(t)
  <2>1. Step(t) /\ pc[t] = "copy" /\ UNCHANGED <<slot, mapped, leases>>
    BY <1>11 DEF Copy, source, Step
  <2>2. call[t].method # "next" /\ t \in leases
    BY <1>2, <2>1 DEF ControlOf, OwnerOf
  <2>3. Lease!Answer(t)
    BY <1>11, <2>1, <2>2, DoneAnswers DEF Copy
  <2> QED BY <2>3 DEF Lease!Next
<1>12. CASE Peek(t)
  <2>1. Step(t) /\ pc[t] = "peek" /\ UNCHANGED <<slot, mapped, leases, call>>
    BY <1>12 DEF Peek, source, Step
  <2>2. call[t].method # "next"
    BY <1>2, <2>1 DEF ControlOf
  <2>3. CASE slot
    <3>1. pc'[t] = "done" /\ ret'[t].tag = "ok"
      BY <1>2, <1>12, <2>3 DEF Peek, Done
    <3>2. AbstractPhase(t) = "asking" /\ AbstractPhase(t)' = "answered"
      BY <2>1, <2>2, <3>1 DEF AbstractPhase, ToldClosed
    <3>3. Lease!Observe(t)
      BY <1>1, <2>1, <2>3, <3>2 DEF Lease!Observe, Lease!Becomes, AbsPhase
    <3> QED BY <3>3 DEF Lease!Next
  <2>4. CASE ~slot
    <3>1. PICK tag \in {"closed", "is_closed"} : Done(t, tag, <<>>)
      BY <1>12, <2>4 DEF Peek
    <3>2. Lease!Refuse(t)
      BY <2>1, <2>2, <2>4, <3>1, ClosedRefuses DEF ToldClosed
    <3> QED BY <3>2 DEF Lease!Next
  <2> QED BY <2>3, <2>4
<1>13. CASE Store(t)
  <2>1. pc[t] = "store" /\ slot' = FALSE /\ leases' = IF slot THEN leases \cup {t} ELSE leases
    BY <1>13 DEF Store
  <2>2. pc'[t] = "done" /\ ret'[t].tag = "ok"
    BY <1>2, <1>13 DEF Store, Done
  <2>3. call[t].method = "close"
    BY <1>2, <2>1 DEF ControlOf
  <2>4. AbstractPhase(t) = "asking" /\ AbstractPhase(t)' = "answered"
    BY <2>1, <2>2, <2>3 DEF AbstractPhase, ToldClosed
  <2>5. Lease!Settle
    BY DEF Lease!Settle, MappedWhileHeld
  <2>6. Lease!Close(t)
    BY <1>1, <2>1, <2>4, <2>5 DEF Lease!Close, Lease!Becomes, AbsPhase
  <2> QED BY <2>6 DEF Lease!Next
<1>14. CASE Build(t)
  <2>1. Step(t) /\ pc[t] = "build" /\ UNCHANGED <<slot, mapped>>
    BY <1>14 DEF Build, Step
  <2>2. call[t].method = "iter" /\ t \in leases
    BY <1>2, <2>1 DEF ControlOf, OwnerOf
  <2>3. ASSUME NEW i \in Iter \ leases, leases' = (leases \ {t}) \cup {i}, Done(t, "ok", <<i>>)
        PROVE  Lease!Next
    <3>1. pc'[t] = "done" /\ ret'[t].tag = "ok"
      BY <1>2, <2>3 DEF Done
    <3>2. AbstractPhase(t) = "asking" /\ AbstractPhase(t)' = "answered"
      BY <2>1, <2>2, <3>1 DEF AbstractPhase, ToldClosed
    <3>3. Lease!Settle
      BY DEF Lease!Settle, MappedWhileHeld
    <3>4. Lease!HandOver(t, i)
      BY <1>1, <2>1, <2>2, <2>3, <3>2, <3>3 DEF Lease!HandOver, Lease!Becomes, AbsPhase
    <3> QED BY <3>4 DEF Lease!Next
  <2>4. CASE Raise(t, "bad_data") /\ UNCHANGED leases
    BY <1>5, <2>1, <2>4 DEF Tag, ToldClosed
  <2> QED BY <1>14, <2>3, <2>4 DEF Build
<1>15. CASE Borrow(t) \/ Advance(t) \/ Convert(t)
  <2>1. /\ Step(t) /\ pc[t] \in {"borrow", "advance", "convert"}
        /\ UNCHANGED <<slot, mapped, leases, call>>
    BY <1>15 DEF Borrow, Advance, Convert, source, Step
  <2>2. call[t].method = "next" /\ Iter \cap leases # {}
    BY <1>2, <2>1 DEF ControlOf, IterOf
  <2>3. ASSUME NEW label \in {"advance", "convert"}, Goto(t, label) PROVE UNCHANGED Lease!vars
    BY <1>4, <2>1, <2>3 DEF Label
  <2>4. ASSUME NEW tag \in {"busy", "bad_data", "raised"}, Raise(t, tag) PROVE Lease!Next
    BY <1>5, <2>1, <2>4 DEF Tag, ToldClosed
  <2>5. ASSUME NEW vals, Done(t, "ok", vals) PROVE Lease!Next
    <3>1. Lease!Answer(t)
      BY <2>1, <2>2, <2>5, DoneAnswers
    <3> QED BY <3>1 DEF Lease!Next
  <2> QED BY <1>15, <2>3, <2>4, <2>5 DEF Borrow, Advance, Convert
<1>16. CASE Finish(t)
  <2>1. pc[t] = "done" /\ pc'[t] = "idle" /\ leases' = leases \ {t} /\ slot' = slot
    BY <1>2, <1>16 DEF Finish, Release
  <2>2. AbstractPhase(t) \in {"answered", "refused", "failed"} /\ AbstractPhase(t)' = "idle"
    BY <2>1 DEF AbstractPhase
  <2>3. Lease!Settle
    BY DEF Lease!Settle, MappedWhileHeld
  <2>4. Lease!Finish(t)
    BY <1>1, <2>1, <2>2, <2>3 DEF Lease!Finish, Lease!Becomes, AbsPhase
  <2> QED BY <2>4 DEF Lease!Next
<1> QED
  BY <1>3, <1>6, <1>7, <1>8, <1>9, <1>10, <1>11, <1>12, <1>13, <1>14, <1>15, <1>16 DEF Step

\* The guards, counts and frames of the code implement ReaderLease: one instant of
\* admission or refusal per call, leases that outlive close(), memory mapped exactly
\* while the database is open or leased.
THEOREM RefinesLease == Spec => ImplementsLease
<1>1. Init => Lease!Init
  <2> SUFFICES ASSUME Init PROVE Lease!Init
    OBVIOUS
  <2>1. AbsPhase = [t \in Thread |-> "idle"]
    BY DEF Init, AbsPhase, AbstractPhase
  <2> QED BY <2>1 DEF Init, Lease!Init, AbsPhase
<1>2. IInv /\ MappedWhileHeld' /\ [Next]_vars => [Lease!Next]_(Lease!vars)
  <2> SUFFICES ASSUME IInv, MappedWhileHeld', [Next]_vars
               PROVE  Lease!Next \/ UNCHANGED Lease!vars
    OBVIOUS
  <2>1. ASSUME NEW t \in Thread, Call(t) \/ Step(t) PROVE Lease!Next \/ UNCHANGED Lease!vars
    BY <2>1, ThreadRefines
  <2>2. Lease!Settle
    BY DEF Lease!Settle, MappedWhileHeld
  <2>3. ASSUME UNCHANGED <<pc, call, ret>> PROVE AbsPhase' = AbsPhase
    BY <2>3 DEF AbsPhase, AbstractPhase
  <2>4. ASSUME NEW i \in Iter, DropIter(i) PROVE Lease!Next
    <3>1. leases' = leases \ {i} /\ slot' = slot /\ AbsPhase' = AbsPhase
      BY <2>3, <2>4 DEF DropIter, Release
    <3>2. Lease!DropIter(i)
      BY <2>2, <3>1 DEF Lease!DropIter, AbsPhase
    <3> QED BY <3>2 DEF Lease!Next
  <2>5. CASE DropReader
    <3>1. leases' = leases /\ slot' = FALSE /\ AbsPhase' = AbsPhase
      BY <2>3, <2>5 DEF DropReader
    <3>2. Lease!DropReader
      BY <2>2, <3>1 DEF Lease!DropReader, AbsPhase
    <3> QED BY <3>2 DEF Lease!Next
  <2>6. CASE Over \/ UNCHANGED vars
    <3>1. UNCHANGED <<slot, mapped, leases>> /\ AbsPhase' = AbsPhase
      BY <2>3, <2>6 DEF Over, vars, source
    <3> QED BY <3>1 DEF Lease!vars, AbsPhase
  <2> QED BY <2>1, <2>4, <2>5, <2>6 DEF Next
<1> QED BY <1>1, <1>2, Invariance, Held, PTL DEF Spec, ImplementsLease, Lease!Spec
=============================================================================
