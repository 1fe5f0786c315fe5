------------------------------ MODULE Decoder ------------------------------
(***************************************************************************)
(* decode.rs in one thread: the visitor that builds Python objects from a  *)
(* record, and the thread-local cache of map keys behind its RefCell.      *)
(*                                                                         *)
(* Creating a container or an exception may start a garbage collection     *)
(* (CPython 3.8 to 3.11), and with it a finalizer that looks up another    *)
(* address: a decode inside a decode, of the same thread and cache.        *)
(***************************************************************************)
EXTENDS Integers, Sequences, FiniteSets

CONSTANTS Record,     \* records that lookups decode
          Part,       \* the records and everything inside them
          Depth,      \* how many containers are inside each other in a part
          MaxDepth,   \* how deep the crate follows data
          Key,        \* the bytes of map keys
          BadKey,     \* those that are not UTF-8
          MaxKeys,    \* PY_MAP_KEY_CACHE_MAX, 256
          MaxCalls    \* bound on the decodes inside each other

ASSUME DecoderAssumption == MaxKeys \in Nat /\ MaxCalls \in Nat \ {0} /\ BadKey \subseteq Key

VARIABLES cache,      \* PY_MAP_KEY_CACHE: the str of each key
          borrowed,   \* the RefCell is mutably borrowed
          frames,     \* the decodes and the containers under construction, innermost last
          hand,       \* what is about to be done, with what
          answer      \* of the last decode: its record, its value or exception

vars == <<cache, borrowed, frames, hand, answer>>

Map(items) == [kind |-> "map", items |-> items]       \* pairs of a key and a part
List(items) == [kind |-> "list", items |-> items]
Scalar(v) == [kind |-> "scalar", items |-> <<v>>]
Unreadable == [kind |-> "unreadable", items |-> <<>>]   \* for the crate, or a bad string

\* What is inside a container is a part, and nested less deep.
ASSUME RecordAssumption ==
  /\ Record \subseteq Part
  /\ MaxDepth \in Nat /\ Depth \in [Part -> 0..MaxDepth]
  /\ \A r \in Part :
       /\ r.kind \in {"map", "list", "scalar", "unreadable"}
       /\ r.kind = "list" =>
            r.items \in Seq(Part) /\ \A k \in DOMAIN r.items : Depth[r.items[k]] < Depth[r]
       /\ r.kind = "map" =>
            r.items \in Seq(Key \X Part) /\ \A k \in DOMAIN r.items : Depth[r.items[k][2]] < Depth[r]

Do(what, with) == [do |-> what, with |-> with]

Str(key) == <<"str", key>>
PyDict(f) == [type |-> "dict", value |-> f]
PyList(s) == [type |-> "list", value |-> s]
PyScalar(v) == [type |-> "scalar", value |-> v]
PyError(e) == [type |-> "error", value |-> e]
Nothing == [record |-> Unreadable, value |-> PyError("none")]

TypeOK == /\ \A k \in DOMAIN cache : k \notin BadKey
          /\ Cardinality(DOMAIN cache) <= MaxKeys
          /\ borrowed \in BOOLEAN
          /\ \A k \in DOMAIN frames : frames[k].kind \in {"call", "map", "list"}
          /\ hand.do \in {"idle", "decode", "next", "give", "set", "bad key"}

Empty == [k \in {} |-> 0]
With(f, k, v) == [x \in DOMAIN f \cup {k} |-> IF x = k THEN v ELSE f[x]]

Init == /\ cache = Empty /\ borrowed = FALSE /\ frames = <<>>
        /\ hand = Do("idle", 0) /\ answer = Nothing

-----------------------------------------------------------------------------
Top == frames[Len(frames)]
Pop == SubSeq(frames, 1, Len(frames) - 1)
Calls == {k \in DOMAIN frames : frames[k].kind = "call"}
Innermost == CHOOSE k \in Calls : \A j \in Calls : j <= k

\* A visitor: what it decodes, how many of its items it has read, what is built of them (or,
\* of a call, what it interrupts).
Frame(kind, part, done) == [kind |-> kind, part |-> part, at |-> 0, done |-> done]

\* The item that was read last, and its key.
Item(f) == f.part.items[f.at]
TopKey == Item(Top)[1]

Begin(r) == /\ frames' = Append(frames, Frame("call", r, hand))
            /\ hand' = Do("decode", r)
            /\ UNCHANGED <<cache, borrowed, answer>>

Call == hand.do = "idle" /\ \E r \in Record : Begin(r)

\* A collection, where an object is created that the collector tracks.
Collect == /\ \/ hand.do = "decode" /\ hand.with.kind = "map"
              \/ hand.do = "give" /\ hand.with.type = "list"
              \/ hand.do = "bad key"
           /\ Cardinality(Calls) < MaxCalls
           /\ \E r \in Record : Begin(r)

\* The innermost decode is over: its lookup returns, and what it interrupted goes on.
Answer(v) == /\ answer' = [record |-> frames[Innermost].part, value |-> v]
             /\ hand' = frames[Innermost].done
             /\ frames' = SubSeq(frames, 1, Innermost - 1)

Fail(e) == Answer(PyError(e))

\* PyValueSeed, PyValueVisitor
Decode ==
  /\ hand.do = "decode"
  /\ CASE hand.with.kind = "scalar" ->
            hand' = Do("give", PyScalar(hand.with.items)) /\ UNCHANGED <<frames, answer>>
       [] hand.with.kind = "unreadable" -> Fail("InvalidDatabaseError")
       [] OTHER ->
            /\ frames' = Append(frames, Frame(hand.with.kind, hand.with,
                                  IF hand.with.kind = "map" THEN Empty ELSE <<>>))
            /\ hand' = Do("next", 0)
            /\ UNCHANGED answer
  /\ UNCHANGED <<cache, borrowed>>

AtEnd == Top.at = Len(Top.part.items)
Read == frames' = [frames EXCEPT ![Len(frames)].at = @ + 1]

\* The head of the loop of visit_seq
NextElement ==
  /\ hand.do = "next" /\ Top.kind = "list"
  /\ IF AtEnd
     THEN frames' = Pop /\ hand' = Do("give", PyList(Top.done))
     ELSE Read /\ hand' = Do("decode", Top.part.items[Top.at + 1])
  /\ UNCHANGED <<cache, borrowed, answer>>

\* mutant: the cache is borrowed for the key before its value is decoded
NextKeyBorrows ==
  /\ hand.do = "next" /\ Top.kind = "map"
  /\ IF AtEnd
     THEN frames' = Pop /\ hand' = Do("give", PyDict(Top.done)) /\ UNCHANGED <<answer, borrowed>>
     ELSE IF borrowed THEN Fail("PanicException") /\ UNCHANGED borrowed
     ELSE /\ Read
          /\ hand' = Do("decode", Top.part.items[Top.at + 1][2])
          /\ borrowed' = TRUE
          /\ UNCHANGED answer
  /\ UNCHANGED cache

\* The head of the loop of visit_map: the bytes of a key, then its value
NextKey ==
  /\ hand.do = "next" /\ Top.kind = "map"
  /\ IF AtEnd
     THEN frames' = Pop /\ hand' = Do("give", PyDict(Top.done))
     ELSE Read /\ hand' = Do("decode", Top.part.items[Top.at + 1][2])
  /\ UNCHANGED <<cache, borrowed, answer>>

\* A value is complete: the result, an element of a list, or the value of a key.
Give ==
  /\ hand.do = "give"
  /\ CASE Top.kind = "call" -> Answer(hand.with) /\ UNCHANGED borrowed
       [] Top.kind = "list" ->
            /\ frames' = [frames EXCEPT ![Len(frames)].done = Append(@, hand.with)]
            /\ hand' = Do("next", 0)
            /\ UNCHANGED <<answer, borrowed>>
       [] Top.kind = "map" ->
            IF borrowed THEN Fail("PanicException") /\ UNCHANGED borrowed
            ELSE borrowed' = TRUE /\ hand' = Do("set", hand.with) /\ UNCHANGED <<frames, answer>>
  /\ UNCHANGED cache

SetItem(key) == /\ frames' = [frames EXCEPT ![Len(frames)].done = With(@, key, hand.with)]
                /\ hand' = Do("next", 0) /\ borrowed' = FALSE
                /\ UNCHANGED answer

\* mutant: the cache takes one key too many
SetMore ==
  /\ hand.do = "set"
  /\ CASE TopKey \in DOMAIN cache -> SetItem(cache[TopKey]) /\ UNCHANGED cache
       [] TopKey \notin DOMAIN cache /\ TopKey \in BadKey ->
            hand' = Do("bad key", 0) /\ UNCHANGED <<frames, answer, borrowed, cache>>
       [] OTHER ->
            /\ SetItem(Str(TopKey))
            /\ IF Cardinality(DOMAIN cache) <= MaxKeys
               THEN cache' = With(cache, TopKey, Str(TopKey)) ELSE UNCHANGED cache

\* mutant: with the cache full, an entry is taken for another key's
SetCollides ==
  /\ hand.do = "set"
  /\ CASE TopKey \in DOMAIN cache -> SetItem(cache[TopKey]) /\ UNCHANGED cache
       [] TopKey \notin DOMAIN cache /\ TopKey \in BadKey ->
            hand' = Do("bad key", 0) /\ UNCHANGED <<frames, answer, borrowed, cache>>
       [] OTHER ->
            IF Cardinality(DOMAIN cache) < MaxKeys
            THEN SetItem(Str(TopKey)) /\ cache' = With(cache, TopKey, Str(TopKey))
            ELSE SetItem(cache[CHOOSE k \in DOMAIN cache : TRUE]) /\ UNCHANGED cache

\* set_cached_map_item under the borrow: a hit, a key that is not UTF-8, a full cache, or
\* a new entry.  The entry stays when the insertion into the dict fails (memory).
Set ==
  /\ hand.do = "set"
  /\ CASE TopKey \in DOMAIN cache -> SetItem(cache[TopKey]) /\ UNCHANGED cache
       [] TopKey \notin DOMAIN cache /\ TopKey \in BadKey ->
            hand' = Do("bad key", 0) /\ UNCHANGED <<frames, answer, borrowed, cache>>
       [] OTHER ->
            /\ SetItem(Str(TopKey))
            /\ IF Cardinality(DOMAIN cache) < MaxKeys
               THEN cache' = With(cache, TopKey, Str(TopKey)) ELSE UNCHANGED cache

SetFails == /\ hand.do = "set" /\ TopKey \notin BadKey
            /\ Fail("InvalidDatabaseError")
            /\ borrowed' = FALSE
            /\ IF TopKey \notin DOMAIN cache /\ Cardinality(DOMAIN cache) < MaxKeys
               THEN cache' = With(cache, TopKey, Str(TopKey)) ELSE UNCHANGED cache

\* The UnicodeDecodeError leaves set_cached_map_item, which ends the borrow.
RefuseKey == /\ hand.do = "bad key"
             /\ Fail("InvalidDatabaseError")
             /\ borrowed' = FALSE
             /\ UNCHANGED cache

Next == \/ Call \/ Collect \/ Decode \/ NextElement \/ NextKey \/ Give
        \/ Set \/ SetFails \/ RefuseKey

Spec == Init /\ [][Next]_vars

-----------------------------------------------------------------------------
\* A dict filled with the first n items: of two with one key, the last counts.
LastAt(items, n, key) ==
  CHOOSE k \in 1..n : /\ Str(items[k][1]) = key
                      /\ \A j \in (k + 1)..n : Str(items[j][1]) # key
DictOf(py, items, n) ==
  [key \in {Str(items[k][1]) : k \in 1..n} |-> py[items[LastAt(items, n, key)][2]]]

ListOf(py, items, n) == [k \in 1..n |-> py[items[k]]]

IsError(v) == v.type = "error"
Invalid == PyError("InvalidDatabaseError")

\* What a part is in Python, given what its parts are.  A part with anything unreadable in
\* it is an exception.
PyOfParts(py, r) ==
  CASE r.kind = "scalar" -> PyScalar(r.items)
    [] r.kind = "unreadable" -> Invalid
    [] r.kind = "list" ->
         IF \E k \in DOMAIN r.items : IsError(py[r.items[k]]) THEN Invalid
         ELSE PyList(ListOf(py, r.items, Len(r.items)))
    [] r.kind = "map" ->
         IF \E k \in DOMAIN r.items : r.items[k][1] \in BadKey \/ IsError(py[r.items[k][2]]) THEN Invalid
         ELSE PyDict(DictOf(py, r.items, Len(r.items)))

PyOf[r \in Part] == PyOfParts(PyOf, r)

\* A lookup returns exactly what the record is, with nested maps under the same keys, a
\* full cache, keys cached by failed or interrupted lookups, and a decode inside a decode;
\* a record with anything unreadable is never returned in part.
ResultIsRecord ==
  IsError(answer.value) \/ answer.value = PyOf[answer.record]

\* The RefCell is borrowed only while one key is set: a map inside a map, an error, or a
\* collection never finds it borrowed.  The one exception is a lookup from a finalizer that
\* runs while the UnicodeDecodeError of a key is created.
InBadKey == \E k \in Calls : frames[k].done.do = "bad key"
NoDoubleBorrow == hand.do = "give" /\ Top.kind = "map" /\ borrowed => InBadKey

\* The inductive invariant behind them.  What is done when everything above frame k is:
\* what a call above it interrupted, or nothing yet while a container above is built.
Inner == Do("inner", 0)
HandOn(k) == IF k = Len(frames) THEN hand
             ELSE IF frames[k + 1].kind = "call" THEN frames[k + 1].done ELSE Inner

\* What frame f waits for.
Awaited(f) == CASE f.kind = "call" -> f.part
                [] f.kind = "list" -> Item(f)
                [] f.kind = "map"  -> Item(f)[2]

\* What is built is the value of the first n items.
Built(f, n) ==
  /\ f.kind = "list" => /\ f.done = ListOf(PyOf, f.part.items, n)
                        /\ \A j \in 1..n : ~IsError(PyOf[f.part.items[j]])
  /\ f.kind = "map"  => /\ f.done = DictOf(PyOf, f.part.items, n)
                        /\ \A j \in 1..n : /\ f.part.items[j][1] \notin BadKey
                                           /\ ~IsError(PyOf[f.part.items[j][2]])

FrameInv(f) ==
  /\ f = [kind |-> f.kind, part |-> f.part, at |-> f.at, done |-> f.done]
  /\ f.kind \in {"call", "map", "list"} /\ f.part \in Part
  /\ f.kind = "call" => f.done.do \in {"idle", "decode", "give", "bad key"}
  /\ f.kind # "call" => f.kind = f.part.kind /\ f.at \in 0..Len(f.part.items)

HandInv(f, h) ==
  /\ h.do \in {"inner", "decode", "next", "give", "set", "bad key"}
  /\ h.do = "decode"           => h.with = Awaited(f)
  /\ h.do \in {"give", "set"}  => h.with = PyOf[Awaited(f)] /\ ~IsError(h.with)
  /\ h.do \in {"set", "bad key"} => f.kind = "map"
  /\ h.do = "next"  => f.kind # "call" /\ Built(f, f.at)
  /\ h.do # "next" /\ f.kind # "call" => f.at > 0 /\ Built(f, f.at - 1)

Level(k) == /\ FrameInv(frames[k]) /\ HandInv(frames[k], HandOn(k))
            /\ frames[k].kind # "call" => frames[k].part = Awaited(frames[k - 1])

IsStack(s) == Len(s) \in Nat /\ s = [k \in 1..Len(s) |-> s[k]]

StackInv == /\ IsStack(frames)
            /\ HandOn(0).do = "idle"
            /\ \A k \in DOMAIN frames : Level(k)

CacheInv == \A k \in DOMAIN cache : cache[k] = Str(k)
BorrowInv == borrowed => hand.do \in {"set", "bad key"} \/ InBadKey
=============================================================================
