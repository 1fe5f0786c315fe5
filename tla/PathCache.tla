----------------------------- MODULE PathCache -----------------------------
(***************************************************************************)
(* Reader::get_or_parse_path (src/src/lib.rs): the cache of parsed paths   *)
(* that get_path() and get_many_path() share, a VecDeque behind a Mutex.   *)
(*                                                                         *)
(* The cache is probed under the mutex, the path is parsed outside it, and *)
(* the parsed path is inserted under the mutex after a second probe.  A    *)
(* hit is by identity of the tuple first and by its contents next.         *)
(*                                                                         *)
(* A tuple is named by its address.  The program may drop a tuple and make *)
(* another one with other contents at the same address, as long as nothing *)
(* holds a reference to the old one: the entries of the cache do.  The     *)
(* contents of a tuple are named by the path they parse to.  That is so    *)
(* for every tuple whose iteration yields its own items (PathElements,     *)
(* HitIsParse), and this module is about those: an instance of a subclass  *)
(* with an __iter__ of its own is cached under what it yields and matched  *)
(* by what it holds, and a hit may then give it another path.              *)
(*                                                                         *)
(* A thread keeps the interpreter lock (GIL) from its call to its return,  *)
(* except where Python code runs on its behalf; there the interpreter may  *)
(* switch to another thread.  Waiting for the mutex does not release it.   *)
(* A free-threaded build of CPython has no such lock, and only the mutex   *)
(* orders the threads.                                                     *)
(***************************************************************************)
EXTENDS Naturals, Sequences

CONSTANTS Thread,
          Tuple,       \* addresses of the path tuples of the program
          Good, Bad,   \* contents that parse, contents that do not
          MaxEntries,  \* PATH_CACHE_MAX_ENTRIES
          MaxCalls,    \* bound: calls each thread makes
          FreeThreading, \* builds without the interpreter lock are possible
          NoGil,       \* what they have for it
          Finalizers,  \* dropping a path tuple may run Python code that uses the reader
          None         \* no thread, no tuple, no path

Content == Good \cup Bad

ASSUME CacheAssumption ==
  /\ MaxEntries \in Nat \ {0} /\ MaxCalls \in Nat
  /\ FreeThreading \in BOOLEAN /\ Finalizers \in BOOLEAN
  /\ Good \cap Bad = {}
  /\ None \notin Thread \cup Tuple \cup Content
  /\ NoGil \notin Thread \cup {None}

VARIABLES
  heap,   \* the contents of the tuple at each address
  cache,  \* the VecDeque, oldest entry first
  mutex,  \* the thread that holds path_cache's lock
  gil,    \* the thread that holds the interpreter lock, or NoGil
  pc, arg, parsed,
  calls   \* calls each thread may still make

vars == <<heap, cache, mutex, gil, pc, arg, parsed, calls>>

Entry == [tuple : Tuple, path : Good]
Label == {"idle", "probe", "parse", "insert", "evict", "reenter", "push", "done"}

\* Where Python code runs: iterating over the caller's path, and a finalizer.
PythonCode == {"parse"} \cup IF Finalizers THEN {"evict"} ELSE {}

Init ==
  /\ heap \in [Tuple -> Content]
  /\ cache = <<>>
  /\ mutex = None
  /\ gil \in {None} \cup IF FreeThreading THEN {NoGil} ELSE {}
  /\ pc     = [t \in Thread |-> "idle"]
  /\ arg    = [t \in Thread |-> None]
  /\ parsed = [t \in Thread |-> None]
  /\ calls  = [t \in Thread |-> MaxCalls]

MayRun(t) == gil \in {t, None, NoGil}

\* Moving to a label with the interpreter lock in hand, or released where it may be.
Goto(t, label) ==
  /\ pc' = [pc EXCEPT ![t] = label]
  /\ gil' \in IF gil = NoGil THEN {NoGil}
              ELSE (IF label = "idle" THEN {} ELSE {t})
                   \cup (IF label \in PythonCode \cup {"idle"} THEN {None} ELSE {})

\* lookup_cached_path_in_cache: the entries that hold this very tuple, or a path that the
\* tuple matches; identity goes first and either gives the path of a single entry.
SameTuple(a)  == {k \in DOMAIN cache : cache[k].tuple = a}
SamePath(a)   == {k \in DOMAIN cache : cache[k].path = heap[a]}
Oldest(ks)    == CHOOSE k \in ks : \A j \in ks : k <= j
Hits(a)       == IF SameTuple(a) # {} THEN SameTuple(a) ELSE SamePath(a)
CachedPath(a) == cache[Oldest(Hits(a))].path

\* A call with a tuple, which is looked up, or with another sequence, which is not.
Call(t) ==
  /\ pc[t] = "idle" /\ calls[t] > 0 /\ MayRun(t)
  /\ calls' = [calls EXCEPT ![t] = @ - 1]
  /\ \E a \in Tuple \cup {None} :
       /\ arg' = [arg EXCEPT ![t] = a]
       /\ Goto(t, IF a = None THEN "parse" ELSE "probe")
  /\ UNCHANGED <<heap, cache, mutex, parsed>>

\* lookup_cached_path: lock, look, unlock.
Probe(t) ==
  /\ pc[t] = "probe" /\ MayRun(t) /\ mutex = None
  /\ IF Hits(arg[t]) # {}
     THEN parsed' = [parsed EXCEPT ![t] = CachedPath(arg[t])] /\ Goto(t, "done")
     ELSE Goto(t, "parse") /\ UNCHANGED parsed
  /\ UNCHANGED <<heap, cache, mutex, arg, calls>>

\* parse_path, without the mutex.  A path that does not parse raises TypeError and leaves
\* nothing behind.
Parse(t) ==
  /\ pc[t] = "parse" /\ MayRun(t)
  /\ \E c \in IF arg[t] = None THEN Content ELSE {heap[arg[t]]} :
       IF c \in Bad
       THEN Goto(t, "done") /\ UNCHANGED parsed
       ELSE /\ parsed' = [parsed EXCEPT ![t] = c]
            /\ Goto(t, IF arg[t] = None THEN "done" ELSE "insert")
  /\ UNCHANGED <<heap, cache, mutex, arg, calls>>

\* Another thread may have inserted the path meanwhile.  A full cache pops its oldest
\* entry; the popped tuple is dropped before the statement ends, the lock still held.
InsertUnchecked(t) ==   \* mutant: the second probe is left out
  /\ pc[t] = "insert" /\ MayRun(t) /\ mutex = None
  /\ mutex' = t
  /\ IF Len(cache) >= MaxEntries
     THEN cache' = Tail(cache) /\ Goto(t, "evict")
     ELSE Goto(t, "push") /\ UNCHANGED cache
  /\ UNCHANGED <<heap, arg, parsed, calls>>
InsertOver(t) ==        \* mutant: > for >=
  /\ pc[t] = "insert" /\ MayRun(t) /\ mutex = None
  /\ IF Hits(arg[t]) # {} THEN Goto(t, "done") /\ UNCHANGED <<cache, mutex>>
     ELSE /\ mutex' = t
          /\ IF Len(cache) > MaxEntries
             THEN cache' = Tail(cache) /\ Goto(t, "evict")
             ELSE Goto(t, "push") /\ UNCHANGED cache
  /\ UNCHANGED <<heap, arg, parsed, calls>>
InsertNewest(t) ==      \* mutant: pop_back for pop_front
  /\ pc[t] = "insert" /\ MayRun(t) /\ mutex = None
  /\ IF Hits(arg[t]) # {} THEN Goto(t, "done") /\ UNCHANGED <<cache, mutex>>
     ELSE /\ mutex' = t
          /\ IF Len(cache) >= MaxEntries
             THEN cache' = SubSeq(cache, 1, Len(cache) - 1) /\ Goto(t, "evict")
             ELSE Goto(t, "push") /\ UNCHANGED cache
  /\ UNCHANGED <<heap, arg, parsed, calls>>
Insert(t) ==
  /\ pc[t] = "insert" /\ MayRun(t) /\ mutex = None
  /\ \/ /\ Hits(arg[t]) # {}
        /\ parsed' = [parsed EXCEPT ![t] = CachedPath(arg[t])]
        /\ Goto(t, "done")
        /\ UNCHANGED <<cache, mutex>>
     \/ /\ Hits(arg[t]) = {} /\ Len(cache) >= MaxEntries
        /\ mutex' = t
        /\ cache' = Tail(cache)
        /\ Goto(t, "evict")
        /\ UNCHANGED parsed
     \/ /\ Hits(arg[t]) = {} /\ Len(cache) < MaxEntries
        /\ mutex' = t
        /\ Goto(t, "push")
        /\ UNCHANGED <<cache, parsed>>
  /\ UNCHANGED <<heap, arg, calls>>

\* Dropping the popped tuple.  If it was the last reference and the tuple or an element is
\* of a class with a finalizer, Python code runs here.  If that code looks up a path it
\* asks for the mutex its own thread holds, and std::sync::Mutex never grants that: there
\* is no step from "reenter".
Evict(t) ==
  /\ pc[t] = "evict" /\ MayRun(t)
  /\ \/ Goto(t, "push")
     \/ Finalizers /\ Goto(t, "reenter")
  /\ UNCHANGED <<heap, cache, mutex, arg, parsed, calls>>

\* push_back of a new reference to the tuple, and the end of the lock guard.
PushKeepsLock(t) ==     \* mutant: the guard is leaked
  /\ pc[t] = "push" /\ MayRun(t)
  /\ cache' = Append(cache, [tuple |-> arg[t], path |-> parsed[t]])
  /\ Goto(t, "done")
  /\ UNCHANGED <<heap, mutex, arg, parsed, calls>>
Push(t) ==
  /\ pc[t] = "push" /\ MayRun(t)
  /\ cache' = Append(cache, [tuple |-> arg[t], path |-> parsed[t]])
  /\ mutex' = None
  /\ Goto(t, "done")
  /\ UNCHANGED <<heap, arg, parsed, calls>>

Return(t) ==
  /\ pc[t] = "done" /\ MayRun(t)
  /\ arg'    = [arg EXCEPT ![t] = None]
  /\ parsed' = [parsed EXCEPT ![t] = None]
  /\ Goto(t, "idle")
  /\ UNCHANGED <<heap, cache, mutex, calls>>

\* The program drops the tuple at an address and makes another one there.
ReferencedByCalls(a) == \E t \in Thread : arg[t] = a   \* mutant: the cache keeps an address only
Referenced(a) == (\E t \in Thread : arg[t] = a) \/ (\E k \in DOMAIN cache : cache[k].tuple = a)
Recycle(a) ==
  /\ gil \in {None, NoGil} /\ ~Referenced(a)
  /\ \E c \in Content \ {heap[a]} : heap' = [heap EXCEPT ![a] = c]
  /\ UNCHANGED <<cache, mutex, gil, pc, arg, parsed, calls>>

Step(t) == \/ Probe(t) \/ Parse(t) \/ Insert(t) \/ Evict(t)
           \/ Push(t) \/ Return(t)

\* The program has made its calls.
Over == /\ \A t \in Thread : pc[t] = "idle" /\ calls[t] = 0
        /\ UNCHANGED vars

Next == \/ \E t \in Thread : Call(t) \/ Step(t)
        \/ \E a \in Tuple : Recycle(a)
        \/ Over

Spec     == Init /\ [][Next]_vars
FairSpec == Spec /\ \A t \in Thread : WF_vars(Step(t))

-----------------------------------------------------------------------------
(* Properties *)

\* Every variable has its type, and the cache never holds more than MaxEntries.
TypeOK ==
  /\ heap \in [Tuple -> Content]
  /\ cache \in Seq(Entry) /\ Len(cache) <= MaxEntries
  /\ mutex \in Thread \cup {None} /\ gil \in Thread \cup {None, NoGil}
  /\ pc \in [Thread -> Label]
  /\ arg \in [Thread -> Tuple \cup {None}]
  /\ parsed \in [Thread -> Good \cup {None}]
  /\ calls \in [Thread -> 0..MaxCalls]

\* A call that returns has the path its own tuple stands for: the identity probe never
\* answers for a dead tuple whose address was used again, the second probe never answers
\* with somebody else's path.
OwnPath ==
  \A t \in Thread :
    pc[t] = "done" /\ arg[t] # None =>
      parsed[t] = IF heap[arg[t]] \in Bad THEN None ELSE heap[arg[t]]

\* Two threads that miss at the same time do not both insert: no path is cached twice.
NoDuplicates ==
  \A j, k \in DOMAIN cache :
    cache[j].path = cache[k].path \/ cache[j].tuple = cache[k].tuple => j = k

\* The cache is first in, first out: an entry leaves only from the front and only to make
\* room in a full cache, and an entry enters at the back.
FifoStep ==
  \/ cache' = cache
  \/ Len(cache) = MaxEntries /\ cache' = Tail(cache)
  \/ Len(cache') = Len(cache) + 1 /\ SubSeq(cache', 1, Len(cache)) = cache
Fifo == [][FifoStep]_cache

\* "The reader is thread-safe and can be shared across threads": every call returns.
CallsReturn == \A t \in Thread : pc[t] # "idle" ~> pc[t] = "idle"
=============================================================================
