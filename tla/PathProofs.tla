---------------------------- MODULE PathProofs ----------------------------
(***************************************************************************)
(* The path cache is right for any number of threads, tuples, paths and    *)
(* entries, with or without a GIL, whatever finalizers do.                 *)
(*                                                                         *)
(* Two facts carry it.  An entry keeps its tuple alive, so its path is     *)
(* what the tuple at its address stands for (Faithful).  From the second   *)
(* probe to the insertion one thread holds the mutex, and the cache has    *)
(* neither its tuple nor its path (Vacant), so no path gets in twice and a *)
(* hit is a single entry.                                                  *)
(*                                                                         *)
(* The second part is about PathElements: what the cache takes for granted *)
(* of the contents of a tuple, and for which tuples it may.                *)
(***************************************************************************)
EXTENDS PathCache, PathElements, SequenceTheorems, TLAPS

Holding == {"evict", "reenter", "push"}

\* An entry's path is what its tuple stands for.
Faithful == \A k \in DOMAIN cache : cache[k].path = heap[cache[k].tuple]

\* Who holds the mutex, and what a thread in the middle of a call knows.
Owner  == \A t \in Thread : pc[t] \in Holding <=> mutex = t
Vacant == \A t \in Thread : pc[t] \in Holding =>
            Hits(arg[t]) = {} /\ Len(cache) < MaxEntries
Knows  == \A t \in Thread :
            /\ pc[t] = "idle" => arg[t] = None
            /\ pc[t] \in {"idle", "probe", "parse"} => parsed[t] = None
            /\ pc[t] \in {"probe", "insert"} \cup Holding => arg[t] \in Tuple
            /\ pc[t] \in {"insert"} \cup Holding => parsed[t] = heap[arg[t]]

Inv == TypeOK /\ Faithful /\ Owner /\ Vacant /\ Knows /\ NoDuplicates /\ OwnPath

\* Removing the oldest entry, and adding one.
LEMMA TailEntries ==
  ASSUME TypeOK, cache # <<>>
  PROVE  /\ Tail(cache) \in Seq(Entry)
         /\ Len(Tail(cache)) = Len(cache) - 1 /\ Len(cache) \in Nat
         /\ \A k \in DOMAIN Tail(cache) : k + 1 \in DOMAIN cache /\ Tail(cache)[k] = cache[k + 1]
         /\ DOMAIN Tail(cache) \subseteq Nat
BY DEF TypeOK

\* What an appended entry adds to the entries of the cache.
LEMMA AppendEntries ==
  ASSUME TypeOK, NEW e \in Entry
  PROVE  /\ Append(cache, e) \in Seq(Entry)
         /\ Len(Append(cache, e)) = Len(cache) + 1 /\ Len(cache) \in Nat
         /\ DOMAIN Append(cache, e) = DOMAIN cache \cup {Len(cache) + 1}
         /\ \A k \in DOMAIN cache : Append(cache, e)[k] = cache[k]
         /\ Append(cache, e)[Len(cache) + 1] = e
         /\ Len(cache) + 1 \notin DOMAIN cache
BY DEF TypeOK

\* A hit is a single entry, and its path is what the tuple stands for.
LEMMA HitIsOwn ==
  ASSUME TypeOK, Faithful, NoDuplicates, NEW a \in Tuple, Hits(a) # {}
  PROVE  CachedPath(a) = heap[a] /\ heap[a] \in Good
<1>1. PICK k \in DOMAIN cache : k \in Hits(a)
  BY DEF Hits, SameTuple, SamePath
<1>2. cache[k] \in Entry /\ cache[k].path = heap[a]
  BY <1>1 DEF Hits, SameTuple, SamePath, Faithful, TypeOK
<1>3. \A j \in Hits(a) : j = k
  BY <1>1, <1>2 DEF Hits, SameTuple, SamePath, NoDuplicates
<1>4. k <= k
  BY <1>1 DEF TypeOK
<1>5. Oldest(Hits(a)) = k
  BY <1>1, <1>3, <1>4 DEF Oldest
<1> QED
  BY <1>2, <1>5 DEF CachedPath, Entry

\* Going to a label changes one program counter and leaves a legal interpreter lock.
LEMMA GotoTyped ==
  ASSUME TypeOK, NEW t \in Thread, NEW l \in Label, Goto(t, l)
  PROVE  /\ pc' \in [Thread -> Label] /\ pc'[t] = l
         /\ \A u \in Thread \ {t} : pc'[u] = pc[u]
         /\ gil' \in Thread \cup {None, NoGil}
<1>1. pc' = [pc EXCEPT ![t] = l]
  BY DEF Goto
<1>2. gil' \in {t, None, NoGil}
  BY DEF Goto
<1> QED
  BY <1>1, <1>2 DEF TypeOK

\* The probes look at nothing but the cache and the tuple's contents.
LEMMA HitsStable ==
  ASSUME NEW a, cache' = cache, heap'[a] = heap[a]
  PROVE  Hits(a)' = Hits(a)
BY DEF Hits, SameTuple, SamePath

\* A step of a thread that leaves the cache, the heap and the mutex alone keeps what
\* everybody else knows; what the thread itself knows is left to the caller.
LEMMA QuietStep ==
  ASSUME Inv, NEW t \in Thread, NEW l \in Label, Goto(t, l),
         UNCHANGED <<heap, cache, mutex>>,
         calls' \in [Thread -> 0..MaxCalls],
         arg' \in [Thread -> Tuple \cup {None}],
         parsed' \in [Thread -> Good \cup {None}],
         \A u \in Thread \ {t} : arg'[u] = arg[u] /\ parsed'[u] = parsed[u],
         pc[t] \notin Holding, l \notin Holding,
         l = "idle" => arg'[t] = None,
         l \in {"idle", "probe", "parse"} => parsed'[t] = None,
         l \in {"probe", "insert"} => arg'[t] \in Tuple,
         l = "insert" => parsed'[t] = heap[arg'[t]],
         l = "done" /\ arg'[t] # None =>
           parsed'[t] = IF heap[arg'[t]] \in Bad THEN None ELSE heap[arg'[t]]
  PROVE  Inv'
<1>1. /\ pc' \in [Thread -> Label] /\ pc'[t] = l
      /\ \A u \in Thread \ {t} : pc'[u] = pc[u]
      /\ gil' \in Thread \cup {None, NoGil}
  BY GotoTyped DEF Inv
<1>2. TypeOK'
  BY <1>1 DEF Inv, TypeOK
<1>3. Faithful' /\ NoDuplicates'
  BY DEF Inv, Faithful, NoDuplicates
<1>4. Owner'
  BY <1>1 DEF Inv, Owner
<1>5. Vacant'
  <2>1. SUFFICES ASSUME NEW u \in Thread, pc'[u] \in Holding
                 PROVE  Hits(arg[u]) = {} /\ Len(cache) < MaxEntries /\ arg'[u] = arg[u]
    BY HitsStable DEF Vacant
  <2> QED BY <1>1, <2>1 DEF Inv, Vacant
<1>6. Knows'
  BY <1>1 DEF Inv, Knows, Holding
<1>7. OwnPath'
  BY <1>1 DEF Inv, OwnPath
<1> QED BY <1>2, <1>3, <1>4, <1>5, <1>6, <1>7 DEF Inv

\* What a thread that knows its path takes from a hit.
LEMMA HitAnswers ==
  ASSUME Inv, NEW a \in Tuple, Hits(a) # {}
  PROVE  CachedPath(a) \in Good /\ CachedPath(a) = IF heap[a] \in Bad THEN None ELSE heap[a]
BY HitIsOwn, CacheAssumption DEF Inv

\* A call starts with nothing in hand.
LEMMA CallKeeps ==
  ASSUME Inv, NEW t \in Thread, Call(t)
  PROVE  Inv'
<1>1. PICK a \in Tuple \cup {None} :
        /\ arg' = [arg EXCEPT ![t] = a]
        /\ Goto(t, IF a = None THEN "parse" ELSE "probe")
  BY DEF Call
<1>2. pc[t] = "idle" /\ parsed[t] = None
  BY DEF Call, Inv, Knows
<1>3. calls' \in [Thread -> 0..MaxCalls]
  <2>1. calls[t] \in 0..MaxCalls /\ calls[t] > 0
    BY DEF Call, Inv, TypeOK
  <2>2. calls[t] - 1 \in 0..MaxCalls
    BY <2>1, CacheAssumption
  <2> QED BY <2>2 DEF Call, Inv, TypeOK
<1>4. /\ arg' \in [Thread -> Tuple \cup {None}] /\ arg'[t] = a
      /\ \A u \in Thread \ {t} : arg'[u] = arg[u]
  BY <1>1 DEF Inv, TypeOK
<1>5. UNCHANGED <<heap, cache, mutex, parsed>> /\ parsed' \in [Thread -> Good \cup {None}]
  BY DEF Call, Inv, TypeOK
<1>6. CASE a = None
  BY <1>1, <1>2, <1>3, <1>4, <1>5, <1>6, QuietStep DEF Label, Holding
<1>7. CASE a # None
  BY <1>1, <1>2, <1>3, <1>4, <1>5, <1>7, QuietStep DEF Label, Holding
<1> QED BY <1>6, <1>7

\* The first probe ends the call with the caller's own path, or knows nothing.
LEMMA ProbeKeeps ==
  ASSUME Inv, NEW t \in Thread, Probe(t)
  PROVE  Inv'
<1>1. /\ pc[t] = "probe" /\ arg[t] \in Tuple /\ parsed[t] = None
      /\ UNCHANGED <<heap, cache, mutex, arg, calls>>
  BY DEF Probe, Inv, Knows
<1>2. /\ calls' \in [Thread -> 0..MaxCalls] /\ arg' \in [Thread -> Tuple \cup {None}]
      /\ parsed \in [Thread -> Good \cup {None}]
  BY <1>1 DEF Inv, TypeOK
<1>3. CASE Hits(arg[t]) # {}
  <2>1. parsed' = [parsed EXCEPT ![t] = CachedPath(arg[t])] /\ Goto(t, "done")
    BY <1>3 DEF Probe
  <2>2. /\ CachedPath(arg[t]) \in Good
        /\ CachedPath(arg[t]) = IF heap[arg[t]] \in Bad THEN None ELSE heap[arg[t]]
    BY <1>1, <1>3, HitAnswers
  <2>3. /\ parsed' \in [Thread -> Good \cup {None}] /\ parsed'[t] = CachedPath(arg[t])
        /\ \A u \in Thread \ {t} : parsed'[u] = parsed[u]
    BY <1>2, <2>1, <2>2
  <2> QED BY <1>1, <1>2, <2>1, <2>2, <2>3, QuietStep DEF Label, Holding
<1>4. CASE Hits(arg[t]) = {}
  <2>1. UNCHANGED parsed /\ Goto(t, "parse")
    BY <1>4 DEF Probe
  <2> QED BY <1>1, <1>2, <2>1, QuietStep DEF Label, Holding
<1> QED BY <1>3, <1>4

\* Parsing gives the path of the caller's own tuple, or nothing.
LEMMA ParseKeeps ==
  ASSUME Inv, NEW t \in Thread, Parse(t)
  PROVE  Inv'
<1>1. /\ pc[t] = "parse" /\ parsed[t] = None
      /\ UNCHANGED <<heap, cache, mutex, arg, calls>>
  BY DEF Parse, Inv, Knows
<1>2. /\ calls' \in [Thread -> 0..MaxCalls] /\ arg' \in [Thread -> Tuple \cup {None}]
      /\ parsed \in [Thread -> Good \cup {None}] /\ arg[t] \in Tuple \cup {None}
      /\ heap \in [Tuple -> Content]
  BY <1>1 DEF Inv, TypeOK
<1>3. PICK c \in IF arg[t] = None THEN Content ELSE {heap[arg[t]]} :
        IF c \in Bad
        THEN Goto(t, "done") /\ UNCHANGED parsed
        ELSE /\ parsed' = [parsed EXCEPT ![t] = c]
             /\ Goto(t, IF arg[t] = None THEN "done" ELSE "insert")
  BY DEF Parse
<1>4. c \in Content /\ (arg[t] # None => c = heap[arg[t]])
  BY <1>2, <1>3
<1>5. CASE c \in Bad
  BY <1>1, <1>2, <1>3, <1>4, <1>5, QuietStep DEF Label, Holding
<1>6. CASE c \notin Bad
  <2>1. parsed' = [parsed EXCEPT ![t] = c] /\ c \in Good
    BY <1>3, <1>4, <1>6 DEF Content
  <2>2. /\ parsed' \in [Thread -> Good \cup {None}] /\ parsed'[t] = c
        /\ \A u \in Thread \ {t} : parsed'[u] = parsed[u]
    BY <1>2, <2>1
  <2>3. CASE arg[t] = None
    BY <1>1, <1>2, <1>3, <1>6, <2>2, <2>3, QuietStep DEF Label, Holding
  <2>4. CASE arg[t] # None
    BY <1>1, <1>2, <1>3, <1>4, <1>6, <2>2, <2>4, QuietStep DEF Label, Holding
  <2> QED BY <2>3, <2>4
<1> QED BY <1>5, <1>6

\* Dropping the popped entry changes nothing but the position of the thread.
LEMMA EvictKeeps ==
  ASSUME Inv, NEW t \in Thread, Evict(t)
  PROVE  Inv'
<1>1. PICK l \in {"push", "reenter"} : Goto(t, l)
  BY DEF Evict
<1>2. pc[t] = "evict" /\ UNCHANGED <<heap, cache, mutex, arg, parsed, calls>>
  BY DEF Evict
<1>3. /\ pc' \in [Thread -> Label] /\ pc'[t] = l
      /\ \A u \in Thread \ {t} : pc'[u] = pc[u]
      /\ gil' \in Thread \cup {None, NoGil}
  BY <1>1, GotoTyped DEF Inv, Label
<1>4. TypeOK'
  BY <1>2, <1>3 DEF Inv, TypeOK
<1>5. Faithful' /\ NoDuplicates'
  BY <1>2 DEF Inv, Faithful, NoDuplicates
<1>6. Owner'
  BY <1>2, <1>3 DEF Inv, Owner, Holding
<1>7. Vacant'
  <2>1. \A u \in Thread : Hits(arg[u])' = Hits(arg[u])
    BY <1>2 DEF Hits, SameTuple, SamePath
  <2>2. \A u \in Thread : pc'[u] \in Holding => pc[u] \in Holding
    BY <1>2, <1>3 DEF Holding
  <2> QED BY <1>2, <2>1, <2>2 DEF Inv, Vacant
<1>8. Knows'
  BY <1>2, <1>3 DEF Inv, Knows, Holding
<1>9. OwnPath'
  BY <1>2, <1>3 DEF Inv, OwnPath
<1> QED BY <1>4, <1>5, <1>6, <1>7, <1>8, <1>9 DEF Inv

\* Taking the mutex makes room; whoever had the mutex before, nobody has it now.
LEMMA InsertKeeps ==
  ASSUME Inv, NEW t \in Thread, Insert(t)
  PROVE  Inv'
<1>1. /\ pc[t] = "insert" /\ mutex = None
      /\ UNCHANGED <<heap, arg, calls>>
      /\ arg[t] \in Tuple /\ parsed[t] = heap[arg[t]]
  BY DEF Insert, Inv, Knows
<1>2. \A u \in Thread : pc[u] \notin Holding
  BY <1>1, CacheAssumption DEF Inv, Owner
<1>3. CASE Hits(arg[t]) # {}
  <2>1. /\ parsed' = [parsed EXCEPT ![t] = CachedPath(arg[t])]
        /\ Goto(t, "done") /\ UNCHANGED <<cache, mutex>>
    BY <1>3 DEF Insert
  <2>2. /\ CachedPath(arg[t]) \in Good
        /\ CachedPath(arg[t]) = IF heap[arg[t]] \in Bad THEN None ELSE heap[arg[t]]
    BY <1>1, <1>3, HitAnswers
  <2>3. /\ parsed' \in [Thread -> Good \cup {None}] /\ parsed'[t] = CachedPath(arg[t])
        /\ \A u \in Thread \ {t} : parsed'[u] = parsed[u]
    BY <2>1, <2>2 DEF Inv, TypeOK
  <2>4. calls' \in [Thread -> 0..MaxCalls] /\ arg' \in [Thread -> Tuple \cup {None}]
    BY <1>1 DEF Inv, TypeOK
  <2> QED BY <1>1, <2>1, <2>2, <2>3, <2>4, QuietStep DEF Label, Holding
<1>4. ASSUME Hits(arg[t]) = {}, UNCHANGED parsed, mutex' = t,
             NEW l \in {"evict", "push"}, Goto(t, l),
             cache' \in Seq(Entry), Len(cache') < MaxEntries,
             NEW d \in {0, 1},
             \A k \in DOMAIN cache' : k \in Nat /\ k + d \in DOMAIN cache /\ cache'[k] = cache[k + d]
      PROVE  Inv'
  <2>1. /\ pc' \in [Thread -> Label] /\ pc'[t] = l
        /\ \A u \in Thread \ {t} : pc'[u] = pc[u]
        /\ gil' \in Thread \cup {None, NoGil}
    BY <1>4, GotoTyped DEF Inv, Label
  <2>2. Len(cache') \in Nat /\ Len(cache') <= MaxEntries
    BY <1>4, CacheAssumption
  <2>3. TypeOK'
    BY <1>1, <1>4, <2>1, <2>2 DEF Inv, TypeOK
  <2>4. Faithful'
    BY <1>1, <1>4 DEF Inv, Faithful
  <2>5. NoDuplicates'
    <3>1. SUFFICES ASSUME NEW j \in DOMAIN cache', NEW k \in DOMAIN cache',
                          cache'[j].path = cache'[k].path \/ cache'[j].tuple = cache'[k].tuple
                   PROVE  j = k
      BY DEF NoDuplicates
    <3>2. j + d = k + d
      BY <1>4, <3>1 DEF Inv, NoDuplicates
    <3> QED BY <1>4, <3>2
  <2>6. Owner'
    BY <1>2, <1>4, <2>1 DEF Owner, Holding
  <2>7. Vacant'
    <3>1. Hits(arg[t])' = {}
      <4>1. \A k \in DOMAIN cache : cache[k].tuple # arg[t] /\ cache[k].path # heap[arg[t]]
        BY <1>4 DEF Hits, SameTuple, SamePath
      <4>2. \A k \in DOMAIN cache' : cache'[k].tuple # arg[t] /\ cache'[k].path # heap[arg[t]]
        BY <1>4, <4>1
      <4> QED BY <1>1, <4>2 DEF Hits, SameTuple, SamePath
    <3> QED BY <1>1, <1>2, <1>4, <2>1, <3>1 DEF Vacant
  <2>8. Knows'
    BY <1>1, <1>4, <2>1 DEF Inv, Knows, Holding
  <2>9. OwnPath'
    BY <1>1, <1>4, <2>1 DEF Inv, OwnPath
  <2> QED BY <2>3, <2>4, <2>5, <2>6, <2>7, <2>8, <2>9 DEF Inv
<1>5. cache \in Seq(Entry) /\ Len(cache) \in Nat /\ Len(cache) <= MaxEntries
  BY DEF Inv, TypeOK
<1>6. CASE Hits(arg[t]) = {} /\ Len(cache) >= MaxEntries
  <2>1. mutex' = t /\ cache' = Tail(cache) /\ Goto(t, "evict") /\ UNCHANGED parsed
    BY <1>5, <1>6, CacheAssumption DEF Insert
  <2>2. cache # <<>>
    BY <1>5, <1>6, CacheAssumption
  <2>3. /\ cache' \in Seq(Entry) /\ Len(cache') < MaxEntries
        /\ \A k \in DOMAIN cache' : k \in Nat /\ k + 1 \in DOMAIN cache /\ cache'[k] = cache[k + 1]
    BY <1>5, <2>1, <2>2, TailEntries, CacheAssumption DEF Inv
  <2> QED BY <1>4, <1>6, <2>1, <2>3
<1>7. CASE Hits(arg[t]) = {} /\ Len(cache) < MaxEntries
  <2>1. mutex' = t /\ cache' = cache /\ Goto(t, "push") /\ UNCHANGED parsed
    BY <1>5, <1>7, CacheAssumption DEF Insert
  <2>2. \A k \in DOMAIN cache : k \in Nat /\ k + 0 \in DOMAIN cache /\ cache[k] = cache[k + 0]
    BY <1>5
  <2> QED BY <1>4, <1>5, <1>7, <2>1, <2>2
<1>8. Len(cache) >= MaxEntries \/ Len(cache) < MaxEntries
  BY <1>5, CacheAssumption
<1> QED BY <1>3, <1>6, <1>7, <1>8

\* The pushed entry is the only one of its tuple and of its path.
LEMMA PushKeeps ==
  ASSUME Inv, NEW t \in Thread, Push(t)
  PROVE  Inv'
<1> DEFINE e == [tuple |-> arg[t], path |-> parsed[t]]
<1>1. /\ pc[t] = "push" /\ mutex' = None /\ Goto(t, "done")
      /\ cache' = Append(cache, e)
      /\ UNCHANGED <<heap, arg, parsed, calls>>
  BY DEF Push
<1>2. /\ arg[t] \in Tuple /\ parsed[t] = heap[arg[t]] /\ mutex = t
      /\ Hits(arg[t]) = {} /\ Len(cache) < MaxEntries
  BY <1>1 DEF Inv, Knows, Owner, Vacant, Holding
<1>3. e \in Entry /\ parsed[t] \in Good
  <2>1. parsed[t] # None
    BY <1>2, CacheAssumption DEF Inv, TypeOK
  <2> QED BY <1>2, <2>1 DEF Inv, TypeOK, Entry
<1>4. \A k \in DOMAIN cache : cache[k].tuple # arg[t] /\ cache[k].path # heap[arg[t]]
  BY <1>2 DEF Hits, SameTuple, SamePath
<1> HIDE DEF e
<1>5. /\ Append(cache, e) \in Seq(Entry)
      /\ Len(Append(cache, e)) = Len(cache) + 1 /\ Len(cache) \in Nat
      /\ DOMAIN Append(cache, e) = DOMAIN cache \cup {Len(cache) + 1}
      /\ \A k \in DOMAIN cache : Append(cache, e)[k] = cache[k]
      /\ Append(cache, e)[Len(cache) + 1] = e
  BY <1>3, AppendEntries DEF Inv
<1>6. e.tuple = arg[t] /\ e.path = heap[arg[t]]
  BY <1>2 DEF e
<1>7. /\ pc' \in [Thread -> Label] /\ pc'[t] = "done"
      /\ \A u \in Thread \ {t} : pc'[u] = pc[u]
      /\ gil' \in Thread \cup {None, NoGil}
  BY <1>1, GotoTyped DEF Inv, Label
<1>8. TypeOK'
  <2>1. Len(cache') <= MaxEntries
    BY <1>1, <1>2, <1>5, CacheAssumption
  <2> QED BY <1>1, <1>5, <1>7, <2>1 DEF Inv, TypeOK
<1>9. Faithful'
  BY <1>1, <1>5, <1>6 DEF Inv, Faithful
<1>10. NoDuplicates'
  BY <1>1, <1>4, <1>5, <1>6 DEF Inv, NoDuplicates
<1>11. \A u \in Thread : pc'[u] \notin Holding
  BY <1>2, <1>7 DEF Inv, Owner, Holding
<1>12. Owner' /\ Vacant'
  BY <1>1, <1>11, CacheAssumption DEF Owner, Vacant
<1>13. Knows'
  BY <1>1, <1>7 DEF Inv, Knows, Holding
<1>14. OwnPath'
  BY <1>1, <1>2, <1>3, <1>7, CacheAssumption DEF Inv, OwnPath
<1> QED BY <1>8, <1>9, <1>10, <1>12, <1>13, <1>14 DEF Inv

\* A thread that returns lets go of its tuple.
LEMMA ReturnKeeps ==
  ASSUME Inv, NEW t \in Thread, Return(t)
  PROVE  Inv'
<1>1. /\ pc[t] = "done" /\ Goto(t, "idle")
      /\ arg' = [arg EXCEPT ![t] = None] /\ parsed' = [parsed EXCEPT ![t] = None]
      /\ UNCHANGED <<heap, cache, mutex, calls>>
  BY DEF Return
<1>2. /\ arg' \in [Thread -> Tuple \cup {None}] /\ arg'[t] = None
      /\ parsed' \in [Thread -> Good \cup {None}] /\ parsed'[t] = None
      /\ calls' \in [Thread -> 0..MaxCalls]
      /\ \A u \in Thread \ {t} : arg'[u] = arg[u] /\ parsed'[u] = parsed[u]
  BY <1>1 DEF Inv, TypeOK
<1> QED BY <1>1, <1>2, QuietStep DEF Label, Holding

\* A tuple that is made anew is one that no call and no entry refers to.
LEMMA RecycleKeeps ==
  ASSUME Inv, NEW a \in Tuple, Recycle(a)
  PROVE  Inv'
<1>1. /\ \A u \in Thread : arg[u] # a
      /\ \A k \in DOMAIN cache : cache[k].tuple # a
      /\ UNCHANGED <<cache, mutex, gil, pc, arg, parsed, calls>>
  BY DEF Recycle, Referenced
<1>2. PICK c \in Content : heap' = [heap EXCEPT ![a] = c]
  BY DEF Recycle
<1>3. heap' \in [Tuple -> Content] /\ \A b \in Tuple \ {a} : heap'[b] = heap[b]
  BY <1>2 DEF Inv, TypeOK
<1>4. TypeOK'
  BY <1>1, <1>3 DEF Inv, TypeOK
<1>5. Faithful'
  <2>1. \A k \in DOMAIN cache : cache[k] \in Entry
    BY DEF Inv, TypeOK
  <2>2. \A k \in DOMAIN cache : cache[k].tuple \in Tuple
    BY <2>1 DEF Entry
  <2> QED BY <1>1, <1>3, <2>2 DEF Inv, Faithful
<1>6. NoDuplicates' /\ Owner'
  BY <1>1 DEF Inv, NoDuplicates, Owner
<1>7. \A u \in Thread : arg[u] \in Tuple => heap'[arg[u]] = heap[arg[u]]
  BY <1>1, <1>3
<1>8. Vacant'
  <2>1. SUFFICES ASSUME NEW u \in Thread, pc[u] \in Holding
                 PROVE  Hits(arg[u])' = {} /\ Len(cache) < MaxEntries
    BY <1>1 DEF Vacant
  <2>2. Hits(arg[u]) = {} /\ Len(cache) < MaxEntries /\ heap'[arg[u]] = heap[arg[u]]
    BY <1>7, <2>1 DEF Inv, Vacant, Knows
  <2> QED BY <1>1, <2>2 DEF Hits, SameTuple, SamePath
<1>9. Knows'
  BY <1>1, <1>7 DEF Inv, Knows
<1>10. OwnPath'
  BY <1>1, <1>7 DEF Inv, OwnPath, TypeOK
<1> QED BY <1>4, <1>5, <1>6, <1>8, <1>9, <1>10 DEF Inv

\* The initial state satisfies the invariant.
LEMMA InvInit == Init => Inv
<1> SUFFICES ASSUME Init PROVE Inv
  OBVIOUS
<1>1. cache = <<>> /\ cache \in Seq(Entry) /\ Len(cache) = 0 /\ DOMAIN cache = {}
  BY DEF Init
<1>2. TypeOK
  BY <1>1, CacheAssumption DEF Init, TypeOK, Label
<1>3. Faithful /\ NoDuplicates
  BY <1>1 DEF Faithful, NoDuplicates
<1>4. Owner
  BY CacheAssumption DEF Init, Owner, Holding
<1>5. Vacant /\ Knows /\ OwnPath
  BY DEF Init, Vacant, Knows, OwnPath, Holding
<1> QED BY <1>2, <1>3, <1>4, <1>5 DEF Inv

\* Every step keeps the invariant.
LEMMA InvStep == Inv /\ [Next]_vars => Inv'
<1> SUFFICES ASSUME Inv, [Next]_vars PROVE Inv'
  OBVIOUS
<1>1. CASE UNCHANGED vars
  <2>1. UNCHANGED <<heap, cache, mutex, gil, pc, arg, parsed, calls>>
    BY <1>1 DEF vars
  <2>2. \A u \in Thread : Hits(arg[u])' = Hits(arg[u])
    BY <2>1 DEF Hits, SameTuple, SamePath
  <2> QED BY <2>1, <2>2 DEF Inv, TypeOK, Faithful, Owner, Vacant, Knows, NoDuplicates, OwnPath
<1>2. CASE \E t \in Thread : Call(t) \/ Step(t)
  BY <1>2, CallKeeps, ProbeKeeps, ParseKeeps, InsertKeeps, EvictKeeps, PushKeeps, ReturnKeeps DEF Step
<1>3. CASE \E a \in Tuple : Recycle(a)
  BY <1>3, RecycleKeeps
<1> QED BY <1>1, <1>2, <1>3 DEF Next, Over

\* The invariant holds throughout.
LEMMA Invariance == Spec => []Inv
BY InvInit, InvStep, PTL DEF Spec

\* Reader::get_or_parse_path: every variable has its type, and the cache never grows past
\* PATH_CACHE_MAX_ENTRIES, however many threads miss at once.
THEOREM CacheIsBounded == Spec => []TypeOK
<1>1. Inv => TypeOK
  BY DEF Inv
<1> QED BY <1>1, Invariance, PTL

\* A lookup returns the path of its own tuple, even when the address of the tuple belonged
\* to another one that the cache has seen.
THEOREM PathIsOwn == Spec => []OwnPath
<1>1. Inv => OwnPath
  BY DEF Inv
<1> QED BY <1>1, Invariance, PTL

\* The second probe keeps two threads that missed together from inserting one path twice.
THEOREM CachedOnce == Spec => []NoDuplicates
<1>1. Inv => NoDuplicates
  BY DEF Inv
<1> QED BY <1>1, Invariance, PTL

\* Eviction takes the oldest entry, and only from a full cache.
THEOREM EvictsOldest == Spec => Fifo
<1>1. ASSUME Inv, [Next]_vars PROVE [FifoStep]_cache
  <2>1. cache \in Seq(Entry) /\ Len(cache) \in Nat /\ Len(cache) <= MaxEntries
    BY <1>1 DEF Inv, TypeOK
  <2>2. ASSUME NEW t \in Thread, Insert(t) PROVE cache' = cache \/ FifoStep
    BY <2>1, <2>2, CacheAssumption DEF Insert, FifoStep
  <2>3. ASSUME NEW t \in Thread, Push(t) PROVE FifoStep
    <3>1. PICK e : cache' = Append(cache, e)
      BY <2>3 DEF Push
    <3>2. Len(cache') = Len(cache) + 1 /\ SubSeq(cache', 1, Len(cache)) = cache
      BY <2>1, <3>1
    <3> QED BY <3>2 DEF FifoStep
  <2>4. ASSUME NEW t \in Thread, Call(t) \/ Probe(t) \/ Parse(t) \/ Evict(t) \/ Return(t)
        PROVE  cache' = cache
    BY <2>4 DEF Call, Probe, Parse, Evict, Return
  <2>5. ASSUME NEW a \in Tuple, Recycle(a) PROVE cache' = cache
    BY <2>5 DEF Recycle
  <2> QED BY <1>1, <2>2, <2>3, <2>4, <2>5 DEF Next, Step, Over, vars
<1> QED BY <1>1, Invariance, PTL DEF Spec, Fifo

-----------------------------------------------------------------------------
(* Path elements, for integers of every width, every set of keys and every *)
(* path.                                                                   *)

\* What has been parsed so far is the item-by-item parse of a prefix of the path.
ParsedPrefix ==
  /\ items \in Seq(Item) /\ path \in Seq(Item)
  /\ owned \in Seq(OwnedPathElement) /\ Len(owned) <= Len(path)
  /\ outcome \in {"parsing", "parsed", "error"}
  /\ \A k \in DOMAIN owned : owned[k] = ParseItem(path[k])
  /\ outcome = "parsed" => Len(owned) = Len(path)
  /\ outcome = "error" => /\ Len(owned) < Len(path)
                          /\ ParseItem(path[Len(owned) + 1]) = Invalid

\* An item parses to an element of a path, whose index fits in usize, or is rejected.
LEMMA ParseItemType ==
  ASSUME NEW item \in Item
  PROVE  ParseItem(item) \in OwnedPathElement \cup {Invalid}
<1>1. CASE item.kind = "str"
  BY <1>1 DEF Item, ParseItem, Key, OwnedPathElement
<1>2. CASE item.kind = "int" /\ item.value \in ISize
  <2>1. FromSigned(item.value) \in OwnedPathElement
    BY <1>2, HalfAssumption
       DEF ISize, USize, FromSigned, Index, IndexFromEnd, OwnedPathElement
  <2> QED BY <1>2, <2>1 DEF ParseItem
<1>3. CASE item.kind = "int" /\ item.value \in USize \ ISize
  BY <1>3 DEF ParseItem, Index, OwnedPathElement
<1>4. CASE /\ item.kind # "str"
           /\ ~(item.kind = "int" /\ item.value \in ISize)
           /\ ~(item.kind = "int" /\ item.value \in USize \ ISize)
  BY <1>4 DEF ParseItem
<1> QED BY <1>1, <1>2, <1>3, <1>4

\* An item matches an element of a cached path exactly if it parses to that element.
LEMMA MatchIsParse ==
  ASSUME NEW item \in Item, NEW e \in OwnedPathElement
  PROVE  MatchItem(item, e) <=> ParseItem(item) = e
<1>1. e # Invalid
  BY DEF OwnedPathElement, Invalid
<1>2. CASE e.element = "Key"
  <2>1. e = Key(e.value)
    BY <1>2 DEF OwnedPathElement, Key
  <2> QED
    BY <1>1, <1>2, <2>1 DEF MatchItem, ParseItem, FromSigned, Key, Index, IndexFromEnd
<1>3. CASE e.element = "Index"
  <2>1. e = Index(e.value) /\ e.value \in USize
    BY <1>3 DEF OwnedPathElement, Index
  <2> QED
    BY <1>1, <1>3, <2>1
       DEF MatchItem, ParseItem, FromSigned, Key, Index, IndexFromEnd, ISize, USize
<1>4. CASE e.element = "IndexFromEnd"
  BY <1>1, <1>4 DEF MatchItem, ParseItem, Key, Index
<1> QED BY <1>2, <1>3, <1>4 DEF OwnedPathElement

\* Nothing has been parsed at first,
LEMMA ParseStarts == ParseInit => ParsedPrefix
BY EmptySeq, PathAssumption DEF ParseInit, ParsedPrefix

\* every turn parses the next item,
LEMMA ParseKeepsPrefix == ParsedPrefix /\ [ParseStep]_parse => ParsedPrefix'
<1> SUFFICES ASSUME ParsedPrefix, [ParseStep]_parse PROVE ParsedPrefix'
  OBVIOUS
<1>1. CASE ParseNext
  <2> DEFINE e == ParseItem(path[Len(owned) + 1])
  <2>1. path[Len(owned) + 1] \in Item
    BY <1>1, ElementOfSeq, LenProperties DEF ParseNext, ParsedPrefix
  <2>2. e \in OwnedPathElement \cup {Invalid}
    BY <2>1, ParseItemType
  <2>3. CASE e = Invalid
    BY <1>1, <2>3 DEF ParseNext, ParsedPrefix
  <2>4. CASE e # Invalid
    <3>1. owned' = Append(owned, e) /\ UNCHANGED <<items, path, outcome>> /\ outcome = "parsing"
      BY <1>1, <2>4 DEF ParseNext
    <3>2. owned \in Seq(OwnedPathElement) /\ e \in OwnedPathElement
      BY <2>2, <2>4 DEF ParsedPrefix
    <3>3. /\ owned' \in Seq(OwnedPathElement) /\ Len(owned') = Len(owned) + 1
          /\ \A k \in 1 .. Len(owned) : owned'[k] = owned[k]
          /\ owned'[Len(owned) + 1] = e
      BY <3>1, <3>2, AppendProperties
    <3>4. DOMAIN owned = 1 .. Len(owned) /\ DOMAIN owned' = 1 .. Len(owned')
      BY <3>2, <3>3, LenProperties
    <3>5. Len(owned) \in Nat
      BY <3>2, LenProperties
    <3>6. \A k \in DOMAIN owned' : owned'[k] = ParseItem(path'[k])
      <4> TAKE k \in DOMAIN owned'
      <4>1. CASE k \in DOMAIN owned
        BY <3>1, <3>3, <3>4, <4>1 DEF ParsedPrefix
      <4>2. CASE k = Len(owned) + 1
        BY <3>1, <3>3, <4>2
      <4> QED BY <3>3, <3>4, <3>5, <4>1, <4>2
    <3>7. Len(owned') <= Len(path')
      BY <1>1, <3>1, <3>3, <3>5, LenProperties DEF ParseNext, ParsedPrefix
    <3> QED BY <3>1, <3>3, <3>6, <3>7 DEF ParsedPrefix
  <2> QED BY <2>3, <2>4
<1>2. CASE ParseEnd
  BY <1>2 DEF ParseEnd, ParsedPrefix
<1>3. CASE UNCHANGED parse
  BY <1>3 DEF parse, ParsedPrefix
<1> QED BY <1>1, <1>2, <1>3 DEF ParseStep

\* and so what has been parsed is always the parse of a beginning of the path.
LEMMA ParseInvariance == ParseSpec => []ParsedPrefix
BY ParseStarts, ParseKeepsPrefix, PTL DEF ParseSpec

\* What is collected is a path with at most the caller's items.
THEOREM ParsesToPath == ParseSpec => []ParseTypeOK
<1>1. ParsedPrefix => ParseTypeOK
  BY DEF ParsedPrefix, ParseTypeOK
<1> QED BY ParseInvariance, <1>1, PTL

\* A tuple matches a cached path exactly if its own items, one by one, parse to it.
LEMMA MatchesIsStandsFor ==
  ASSUME NEW held \in Seq(Item), NEW n \in Nat, NEW cached \in [1 .. n -> OwnedPathElement]
  PROVE  Matches(held, cached) <=> StandsFor(held, cached)
<1>1. Len(held) \in Nat /\ DOMAIN held = 1 .. Len(held)
  BY LenProperties
<1>2. cached \in Seq(OwnedPathElement) /\ Len(cached) = n /\ DOMAIN cached = 1 .. n
  BY IsASeq
<1>3. \A k \in 1 .. Len(held) : held[k] \in Item
  BY ElementOfSeq
<1>4. ASSUME n = Len(held), NEW k \in 1 .. Len(held)
      PROVE  MatchItem(held[k], cached[k]) <=> cached[k] = ParseItem(held[k])
  BY <1>1, <1>2, <1>3, <1>4, MatchIsParse
<1> QED BY <1>1, <1>2, <1>4 DEF Matches, StandsFor

\* A path stands for what the parser has read exactly if the parser accepted it and
\* collected that path.
LEMMA ParsedIsStandsFor ==
  ASSUME ParsedPrefix, outcome # "parsing",
         NEW n \in Nat, NEW cached \in [1 .. n -> OwnedPathElement]
  PROVE  StandsFor(path, cached) <=> outcome = "parsed" /\ cached = owned
<1>1. /\ Len(path) \in Nat /\ DOMAIN path = 1 .. Len(path)
      /\ Len(owned) \in Nat /\ DOMAIN owned = 1 .. Len(owned)
  BY LenProperties DEF ParsedPrefix
<1>2. cached \in Seq(OwnedPathElement) /\ Len(cached) = n /\ DOMAIN cached = 1 .. n
  BY IsASeq
<1>3. CASE outcome = "parsed"
  <2>1. Len(owned) = Len(path)
    BY <1>3 DEF ParsedPrefix
  <2>2. ASSUME StandsFor(path, cached) PROVE cached = owned
    <3>1. n = Len(path) /\ \A k \in 1 .. n : cached[k] = owned[k]
      BY <1>1, <1>2, <2>1, <2>2 DEF StandsFor, ParsedPrefix
    <3> QED BY <1>1, <1>2, <2>1, <3>1, SeqEqual DEF ParsedPrefix
  <2>3. ASSUME cached = owned PROVE StandsFor(path, cached)
    BY <1>1, <1>2, <2>1, <2>3 DEF StandsFor, ParsedPrefix
  <2> QED BY <1>3, <2>2, <2>3
<1>4. CASE outcome = "error"
  <2> DEFINE k == Len(owned) + 1
  <2>1. k \in 1 .. Len(path) /\ ParseItem(path[k]) = Invalid
    BY <1>1, <1>4 DEF ParsedPrefix
  <2>2. ASSUME StandsFor(path, cached) PROVE FALSE
    <3>1. cached[k] = Invalid /\ k \in 1 .. n
      BY <1>1, <1>2, <2>1, <2>2 DEF StandsFor
    <3>2. cached[k] \in OwnedPathElement
      BY <3>1
    <3> QED BY <3>1, <3>2 DEF OwnedPathElement, Invalid
  <2> QED BY <1>4, <2>2
<1> QED BY <1>3, <1>4 DEF ParsedPrefix

\* path_tuple_matches_owned and parse_path agree: a cached path matches a tuple exactly if
\* the items the tuple holds parse to it.  So where iterating over the tuple yields its own
\* items a hit is what parsing gives, and a path that does not parse has none; of a
\* subclass with an __iter__ of its own only the first half is said.
THEOREM CacheHitIsParse == ParseSpec => []HitIsParse
<1>1. ParsedPrefix => HitIsParse
  <2> SUFFICES ASSUME ParsedPrefix, outcome # "parsing", NEW n \in 0 .. Len(items),
                      NEW cached \in [1 .. n -> OwnedPathElement]
               PROVE  /\ Matches(items, cached) <=> StandsFor(items, cached)
                      /\ path = items =>
                           (Matches(items, cached) <=> outcome = "parsed" /\ cached = owned)
    BY DEF HitIsParse
  <2>1. items \in Seq(Item) /\ n \in Nat
    BY LenProperties DEF ParsedPrefix
  <2>2. Matches(items, cached) <=> StandsFor(items, cached)
    BY <2>1, MatchesIsStandsFor
  <2>3. StandsFor(path, cached) <=> outcome = "parsed" /\ cached = owned
    BY <2>1, ParsedIsStandsFor
  <2> QED BY <2>2, <2>3
<1> QED BY ParseInvariance, <1>1, PTL

\* Every integer that parses selects what Python's subscript selects, isize::MIN included.
THEOREM IndexesAreSubscripts == ParseSpec => []IndexIsSubscript
<1>1. ParsedPrefix => IndexIsSubscript
  <2> SUFFICES ASSUME ParsedPrefix, NEW k \in DOMAIN owned, NEW len \in 0 .. Half - 1,
                      path[k].kind = "int"
               PROVE  Selected(owned[k], len) = Subscript(path[k].value, len)
    BY DEF IndexIsSubscript
  <2>1. k \in 1 .. Len(path) /\ path[k] \in Item
    BY ElementOfSeq, LenProperties DEF ParsedPrefix
  <2>2. path[k].value \in Int
    BY <2>1 DEF Item
  <2>3. owned[k] = ParseItem(path[k]) /\ owned[k] # Invalid
    <3>1. owned[k] \in OwnedPathElement
      BY ElementOfSeq, LenProperties DEF ParsedPrefix
    <3> QED BY <3>1 DEF ParsedPrefix, OwnedPathElement, Invalid
  <2>4. CASE path[k].value \in ISize
    <3>1. owned[k] = FromSigned(path[k].value)
      BY <2>3, <2>4 DEF ParseItem
    <3> QED
      BY HalfAssumption, <2>2, <2>4, <3>1
         DEF FromSigned, Index, IndexFromEnd, Selected, Subscript, ISize, NoElement
  <2>5. CASE path[k].value \in USize \ ISize
    <3>1. owned[k] = Index(path[k].value)
      BY <2>3, <2>5 DEF ParseItem
    <3> QED
      BY <2>2, <2>5, <3>1
         DEF Index, Selected, Subscript, ISize, USize, NoElement
  <2> QED BY <2>3, <2>4, <2>5 DEF ParseItem
<1> QED BY ParseInvariance, <1>1, PTL
=============================================================================
