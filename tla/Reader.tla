------------------------------- MODULE Reader -------------------------------
(***************************************************************************)
(* The Reader class of src/src/lib.rs and the lifetime of the database it  *)
(* reads: an ArcSwapOption<ReaderSource> that close() empties while other  *)
(* threads look up, batch and iterate.                                     *)
(*                                                                         *)
(* A thread is one activation of Python code.  A method that calls back    *)
(* into Python (a generator of addresses, an ipaddress object, a finalizer *)
(* run by an allocation) and whose callback calls the reader again is two  *)
(* activations.  Steps of different threads interleave at every access to  *)
(* the shared state, which is what free-threaded CPython allows; under the *)
(* GIL fewer of these interleavings are possible.                          *)
(*                                                                         *)
(* Addresses are model values.  The record the database holds for an       *)
(* address is named by that address.                                       *)
(***************************************************************************)
EXTENDS Naturals, Sequences, FiniteSets

CONSTANTS Thread,     \* activations of Python code
          Iter,       \* ReaderIterator objects that exist at one time
          Method,     \* the methods the threads call
          V4, V6,     \* arguments that parse as an IPv4 or an IPv6 address
          NotAnIp,    \* arguments that parse as neither
          Absent,     \* addresses without a record
          Corrupt,    \* addresses whose lookup or decoding fails
          IpVersion,  \* the ip_version of the database's metadata
          MaxBatch,   \* bound: the most items a caller's iterable yields
          None        \* no address, no iterator, no thread

Single == {"get", "get_path", "get_with_prefix_len"}
Batch  == {"get_many", "get_many_path"}
Ip     == V4 \cup V6

ASSUME ClientsAssumption ==
  /\ IsFiniteSet(Thread) /\ IsFiniteSet(Iter)
  /\ Thread \cap Iter = {}
  /\ None \notin Thread \cup Iter \cup Ip

ASSUME DatabaseAssumption ==
  /\ V4 \cap V6 = {}
  /\ NotAnIp \cap Ip = {}
  /\ IpVersion \in {4, 6}
  /\ MaxBatch \in Nat

ASSUME MethodAssumption ==
  Method \subseteq Single \cup Batch \cup
    {"metadata", "closed", "enter", "close", "iter", "next"}

VARIABLES
  slot,      \* Reader.reader holds the source (it is empty after close)
  strong,    \* the strong count of Arc<ReaderSource>
  mapped,    \* the source's bytes are mapped (or, in the memory modes, allocated)
  leases,    \* the call frames and iterators that own one count of the Arc
  gone,      \* the Reader object was deallocated
  borrower,  \* the thread that holds an iterator's mutable borrow
  pc,        \* where each thread's call stands
  call,      \* its frame: the method, the iterator it is called on, the addresses parsed so
             \* far, the results so far, and whether the database was open when it began
  ret        \* its result, while it is being handed back

source == <<slot, strong, mapped, leases, gone>>
vars   == <<source, borrower, pc, call, ret>>

Label == {"idle", "parse_ip", "parse_path", "load", "check", "iterate", "items",
          "lookup", "copy", "peek", "store", "build", "borrow", "advance",
          "convert", "done"}

Tag == {"none", "ok", "closed", "closed_os", "is_closed", "bad_ip", "wrong_family",
        "bad_path", "bad_iterable", "raised", "bad_data", "busy"}

\* What a call raises or returns to say that the database is closed.
ToldClosed == {"closed", "closed_os", "is_closed"}

NewFrame(method, iter, began) ==
  [method |-> method, iter |-> iter, fed |-> <<>>, objects |-> <<>>, began |-> began]
Idle  == NewFrame("none", None, "open")
NoRet == [tag |-> "none", vals |-> <<>>]

Frame  == [method : Method \cup {"none"}, iter : Iter \cup {None}, fed : Seq(Ip),
           objects : Seq(Ip \cup {None}), began : {"open", "closed"}]
Result == [tag : Tag, vals : Seq(Ip \cup Iter \cup {None})]

\* The record of an address, None where the tree has none.
Record(ip) == IF ip \in Absent THEN None ELSE ip

Init ==
  /\ slot = TRUE /\ strong = 1 /\ mapped = TRUE
  /\ leases = {} /\ gone = FALSE
  /\ borrower = [i \in Iter |-> None]
  /\ pc   = [t \in Thread |-> "idle"]
  /\ call = [t \in Thread |-> Idle]
  /\ ret  = [t \in Thread |-> NoRet]

-----------------------------------------------------------------------------
(* Control flow, results and reference counts *)

Goto(t, label) == pc' = [pc EXCEPT ![t] = label] /\ UNCHANGED ret

Done(t, tag, vals) ==
  /\ pc'  = [pc EXCEPT ![t] = "done"]
  /\ ret' = [ret EXCEPT ![t] = [tag |-> tag, vals |-> vals]]

\* `?` on an error: everything collected so far is discarded.
Raise(t, tag) == Done(t, tag, <<>>)

\* ArcSwapOption::load and load_full: one more owner of the source.
Acquire(c) ==
  /\ strong' = strong + 1
  /\ leases' = leases \cup {c}

\* Dropping an owner; the last one unmaps the source.
ReleaseAlways(c) ==        \* mutant: drops a count the frame never took
  /\ leases' = leases \ {c}
  /\ strong' = strong - 1
  /\ mapped' = (strong' > 0)
Release(c) ==
  /\ leases' = leases \ {c}
  /\ strong' = IF c \in leases THEN strong - 1 ELSE strong
  /\ mapped' = (strong' > 0)

Entry(method) ==
  CASE method \in Single                             -> "parse_ip"
    [] method \in Batch \cup {"metadata", "iter"}    -> "load"
    [] method \in {"closed", "enter"}                -> "peek"
    [] method = "close"                              -> "store"
    [] method = "next"                               -> "borrow"

\* A thread calls a method of the reader, or next() on an iterator it can reach.
Call(t) ==
  /\ pc[t] = "idle"
  /\ \E m \in Method, i \in Iter \cup {None} :
       /\ IF m = "next" THEN i \in leases ELSE i = None /\ ~gone
       /\ call' = [call EXCEPT ![t] = NewFrame(m, i, IF slot THEN "open" ELSE "closed")]
       /\ Goto(t, Entry(m))
  /\ UNCHANGED <<source, borrower>>

-----------------------------------------------------------------------------
(* Arguments *)

\* parse_lookup_ip: parsing may run Python code (type name, `_ip`, int conversions).
ParseIp(t) ==
  /\ pc[t] = "parse_ip"
  /\ \/ NotAnIp # {} /\ Raise(t, "bad_ip") /\ UNCHANGED call
     \/ IpVersion = 4 /\ V6 # {} /\ Raise(t, "wrong_family") /\ UNCHANGED call
     \/ \E ip \in IF IpVersion = 4 THEN V4 ELSE Ip :
          /\ call' = [call EXCEPT ![t].fed = Append(@, ip)]
          /\ Goto(t, CASE call[t].method \in Batch      -> "lookup"
                       [] call[t].method = "get_path"  -> "parse_path"
                       [] OTHER                        -> "load")
  /\ UNCHANGED <<source, borrower>>

\* get_or_parse_path: PathCache says what it does; here it fails or succeeds.
ParsePath(t) ==
  /\ pc[t] = "parse_path"
  /\ \/ Raise(t, "bad_path")
     \/ Goto(t, IF call[t].method = "get_path" THEN "load" ELSE "iterate")
  /\ UNCHANGED <<source, borrower, call>>

\* is_bytes_like_or_string: a str or bytes is iterable but never a batch.
Check(t) ==
  /\ pc[t] = "check"
  /\ \/ Raise(t, "bad_iterable")
     \/ Goto(t, IF call[t].method = "get_many_path" THEN "parse_path" ELSE "iterate")
  /\ UNCHANGED <<source, borrower, call>>

\* A list, a tuple, or try_iter(), which fails on what is not iterable.
Iterate(t) ==
  /\ pc[t] = "iterate"
  /\ \/ Raise(t, "bad_iterable")
     \/ Goto(t, "items")
  /\ UNCHANGED <<source, borrower, call>>

\* The next item of the caller's iterable: its end, an exception it raises, or an
\* item, which ParseIp takes.  A list may shrink or grow meanwhile: any end is possible.
NextItem(t) ==
  /\ pc[t] = "items"
  /\ \/ Done(t, "ok", call[t].objects)
     \/ Raise(t, "raised")
     \/ Len(call[t].fed) < MaxBatch /\ Goto(t, "parse_ip")
  /\ UNCHANGED <<source, borrower, call>>

-----------------------------------------------------------------------------
(* The source *)

AfterLoad(method) ==
  CASE method \in Single   -> "lookup"
    [] method \in Batch    -> "check"
    [] method = "metadata" -> "copy"
    [] method = "iter"     -> "build"

\* self.reader.load() and the error of an empty slot.
LoadUpgrade(t) ==          \* mutant: a weak pointer, upgraded while anybody holds the source
  /\ pc[t] = "load"
  /\ \/ /\ mapped
        /\ Acquire(t)
        /\ Goto(t, AfterLoad(call[t].method))
     \/ /\ ~mapped
        /\ Raise(t, "closed")
        /\ UNCHANGED <<strong, leases>>
  /\ UNCHANGED <<slot, mapped, gone, borrower, call>>
Load(t) ==
  /\ pc[t] = "load"
  /\ \/ /\ slot
        /\ Acquire(t)
        /\ Goto(t, AfterLoad(call[t].method))
     \/ /\ ~slot
        /\ Raise(t, IF call[t].method = "metadata" THEN "closed_os" ELSE "closed")
        /\ UNCHANGED <<strong, leases>>
  /\ UNCHANGED <<slot, mapped, gone, borrower, call>>

\* ReaderSource::lookup, lookup_path or lookup_prefix, and the conversion of its result,
\* for the address parsed last.
Current(t) == call[t].fed[Len(call[t].fed)]
LookupReloads(t) ==        \* mutant: the reader is loaded again for every item
  /\ pc[t] = "lookup"
  /\ \/ ~slot /\ Raise(t, "closed") /\ UNCHANGED call
     \/ /\ slot /\ call[t].method \in Batch
        /\ call' = [call EXCEPT ![t].objects = Append(@, Record(Current(t)))]
        /\ Goto(t, "items")
     \/ /\ slot /\ call[t].method \in Single
        /\ Done(t, "ok", <<Record(Current(t))>>) /\ UNCHANGED call
  /\ UNCHANGED <<source, borrower>>
LookupSkips(t) ==          \* mutant: a corrupt record is left out of the batch
  /\ pc[t] = "lookup"
  /\ LET ip == Current(t) IN
     IF call[t].method \in Single
     THEN Done(t, "ok", <<Record(ip)>>) /\ UNCHANGED call
     ELSE /\ Goto(t, "items")
          /\ call' = [call EXCEPT ![t].objects = IF ip \in Corrupt THEN @ ELSE Append(@, Record(ip))]
  /\ UNCHANGED <<source, borrower>>
Lookup(t) ==
  /\ pc[t] = "lookup"
  /\ LET ip == Current(t) IN
     \/ ip \in Corrupt /\ Raise(t, "bad_data") /\ UNCHANGED call
     \/ /\ ip \notin Corrupt /\ call[t].method \in Single
        /\ Done(t, "ok", <<Record(ip)>>)
        /\ UNCHANGED call
     \/ /\ ip \notin Corrupt /\ call[t].method \in Batch
        /\ call' = [call EXCEPT ![t].objects = Append(@, Record(ip))]
        /\ Goto(t, "items")
  /\ UNCHANGED <<source, borrower>>

\* Metadata::from_maxmind copies every field out of the source.
Copy(t) ==
  /\ pc[t] = "copy"
  /\ Done(t, "ok", <<>>)
  /\ UNCHANGED <<source, borrower, call>>

\* `closed` and __enter__ look at the slot and take nothing.
Peek(t) ==
  /\ pc[t] = "peek"
  /\ Done(t, IF slot THEN "ok" ELSE IF call[t].method = "enter" THEN "closed" ELSE "is_closed",
          <<>>)
  /\ UNCHANGED <<source, borrower, call>>

\* close(), and __exit__ which calls it: store(None) swaps the slot, and the closing
\* call owns the count the slot had until it drops the old value.
StoreUnmaps(t) ==          \* mutant: the mapping goes at once
  /\ pc[t] = "store"
  /\ slot' = FALSE /\ mapped' = FALSE
  /\ leases' = IF slot THEN leases \cup {t} ELSE leases
  /\ Done(t, "ok", <<>>)
  /\ UNCHANGED <<strong, gone, borrower, call>>
StoreForgets(t) ==         \* mutant: the old value is never dropped
  /\ pc[t] = "store"
  /\ slot' = FALSE
  /\ Done(t, "ok", <<>>)
  /\ UNCHANGED <<strong, leases, mapped, gone, borrower, call>>
StoreWaits(t) ==           \* mutant: close() waits for everybody who holds the source
  /\ pc[t] = "store" /\ leases = {}
  /\ slot' = FALSE
  /\ leases' = IF slot THEN leases \cup {t} ELSE leases
  /\ Done(t, "ok", <<>>)
  /\ UNCHANGED <<strong, mapped, gone, borrower, call>>
Store(t) ==
  /\ pc[t] = "store"
  /\ slot' = FALSE
  /\ leases' = IF slot THEN leases \cup {t} ELSE leases
  /\ Done(t, "ok", <<>>)
  /\ UNCHANGED <<strong, mapped, gone, borrower, call>>

-----------------------------------------------------------------------------
(* Iterators *)

\* ReaderIterator::new: the Arc of load_full moves into the iterator's self_cell, or the
\* construction fails (a bad root network, an import error) and the call still owns it.
BuildLeaks(t) ==           \* mutant: a failed construction forgets the Arc
  /\ pc[t] = "build"
  /\ \/ \E i \in Iter \ leases :
          /\ leases' = (leases \ {t}) \cup {i}
          /\ Done(t, "ok", <<i>>)
     \/ Raise(t, "bad_data") /\ leases' = leases \ {t}
  /\ UNCHANGED <<slot, strong, mapped, gone, borrower, call>>
Build(t) ==
  /\ pc[t] = "build"
  /\ \/ \E i \in Iter \ leases :
          /\ leases' = (leases \ {t}) \cup {i}
          /\ Done(t, "ok", <<i>>)
     \/ Raise(t, "bad_data") /\ UNCHANGED leases
  /\ UNCHANGED <<slot, strong, mapped, gone, borrower, call>>

\* PyO3 takes the exclusive borrow __next__(&mut self) asks for, or raises RuntimeError.
BorrowShared(t) ==         \* mutant: the borrow is not exclusive
  /\ pc[t] = "borrow"
  /\ borrower' = [borrower EXCEPT ![call[t].iter] = t]
  /\ Goto(t, "advance")
  /\ UNCHANGED <<source, call>>
Borrow(t) ==
  /\ pc[t] = "borrow"
  /\ LET i == call[t].iter IN
     \/ /\ borrower[i] = None
        /\ borrower' = [borrower EXCEPT ![i] = t]
        /\ Goto(t, "advance")
     \/ borrower[i] # None /\ Raise(t, "busy") /\ UNCHANGED borrower
  /\ UNCHANGED <<source, call>>

\* ReaderWithin::next reads the tree and decodes: an item, the end, or bad data.
Advance(t) ==
  /\ pc[t] = "advance"
  /\ \/ Goto(t, "convert")
     \/ Done(t, "ok", <<None>>)
     \/ Raise(t, "bad_data")
  /\ UNCHANGED <<source, borrower, call>>

\* network_to_python calls the ipaddress class, which is Python code.
Convert(t) ==
  /\ pc[t] = "convert"
  /\ \/ Done(t, "ok", <<call[t].iter>>)
     \/ Raise(t, "raised")
  /\ UNCHANGED <<source, borrower, call>>

-----------------------------------------------------------------------------
(* Returning, and deallocation by Python *)

\* The frame ends: its guard or Arc is dropped, a borrow it holds is given back.
Finish(t) ==
  /\ pc[t] = "done"
  /\ Release(t)
  /\ borrower' = [i \in Iter |-> IF borrower[i] = t THEN None ELSE borrower[i]]
  /\ pc'   = [pc EXCEPT ![t] = "idle"]
  /\ call' = [call EXCEPT ![t] = Idle]
  /\ ret'  = [ret EXCEPT ![t] = NoRet]
  /\ UNCHANGED <<slot, gone>>

\* Nobody refers to the iterator any more (a pending next() does).
DropIterInUse(i) ==        \* mutant: a pending next() does not keep the iterator
  /\ i \in leases
  /\ Release(i)
  /\ UNCHANGED <<slot, gone, borrower, pc, call, ret>>
DropIter(i) ==
  /\ i \in leases
  /\ \A t \in Thread : call[t].iter # i
  /\ Release(i)
  /\ UNCHANGED <<slot, gone, borrower, pc, call, ret>>

\* Nobody refers to the Reader any more: its slot is dropped with it.
DropReader ==
  /\ ~gone
  /\ \A t \in Thread : call[t].method \in {"none", "next"}
  /\ gone' = TRUE
  /\ slot' = FALSE
  /\ strong' = IF slot THEN strong - 1 ELSE strong
  /\ mapped' = (strong' > 0)
  /\ UNCHANGED <<leases, borrower, pc, call, ret>>

\* What a thread does once it is inside a call.
Step(t) ==
  \/ ParseIp(t) \/ ParsePath(t) \/ Check(t) \/ Iterate(t) \/ NextItem(t)
  \/ Load(t) \/ Lookup(t) \/ Copy(t) \/ Peek(t) \/ Store(t)
  \/ Build(t) \/ Borrow(t) \/ Advance(t) \/ Convert(t) \/ Finish(t)

\* Nothing of the reader is left to call.
Over ==
  /\ gone /\ leases = {} /\ \A t \in Thread : pc[t] = "idle"
  /\ UNCHANGED vars

Next ==
  \/ \E t \in Thread : Call(t) \/ Step(t)
  \/ \E i \in Iter : DropIter(i)
  \/ DropReader
  \/ Over

Spec == Init /\ [][Next]_vars

\* A call that has begun goes on: its steps are straight-line code of a scheduled thread,
\* and the caller's iterable ends (MaxBatch).
FairSpec == Spec /\ \A t \in Thread : WF_vars(Step(t))

-----------------------------------------------------------------------------
(* Properties *)

\* Every variable has its type.
TypeOK ==
  /\ slot \in BOOLEAN /\ mapped \in BOOLEAN /\ gone \in BOOLEAN
  /\ strong \in Nat
  /\ leases \subseteq Thread \cup Iter
  /\ borrower \in [Iter -> Thread \cup {None}]
  /\ pc \in [Thread -> Label]
  /\ call \in [Thread -> Frame]
  /\ ret \in [Thread -> Result]

\* The strong count is the number of owners (the slot, the guards, the iterators), and the
\* bytes are mapped exactly while there is one: close() racing lookups and iterators
\* neither frees the source under a reader nor leaks it.
CountExact ==
  /\ strong = Cardinality(leases) + (IF slot THEN 1 ELSE 0)
  /\ mapped <=> strong > 0

\* A thread about to read the tree or the data section, in a lookup, in the middle of a
\* batch, in metadata() or in an iterator's next(), finds the bytes mapped whatever
\* close() and deallocation have done since it loaded the reader.
NoUseAfterUnmap ==
  \A t \in Thread :
    /\ pc[t] \in {"lookup", "copy", "build"} => t \in leases /\ mapped
    /\ pc[t] = "advance" => call[t].iter \in leases /\ mapped

\* A batch loads the reader once: a close() in the middle of it cannot make it fail, so a
\* call is told that the database is closed only before it looked anything up, and only
\* once the database is closed.
ClosedIsNeverPartial ==
  \A t \in Thread : ret[t].tag \in ToldClosed => ~slot /\ call[t].objects = <<>> /\ t \notin leases

\* A call of a reader method that begins after close() gets no data.  The batch methods,
\* metadata(), __enter__ and __iter__ say so whatever their arguments; a single lookup
\* may report a bad argument instead, which it examines first.
LateCallsGetNothing ==
  \A t \in Thread :
    pc[t] = "done" /\ call[t].began = "closed" /\ call[t].method \notin {"close", "next"} =>
      \/ ret[t].tag \in ToldClosed
      \/ call[t].method \in Single /\ ret[t].tag \in {"bad_ip", "wrong_family", "bad_path"}

\* A batch that succeeds has exactly one result per item, in the order of the items, each
\* the result of its own item; none of them was corrupt.
BatchComplete ==
  \A t \in Thread :
    pc[t] = "done" /\ call[t].method \in Batch /\ ret[t].tag = "ok" =>
      LET fed == call[t].fed IN
        /\ ret[t].vals = [k \in DOMAIN fed |-> Record(fed[k])]
        /\ \A k \in DOMAIN fed : fed[k] \notin Corrupt

\* Two threads that share an iterator are never both inside its next().
OneBorrower ==
  \A t, u \in Thread :
    /\ pc[t] \in {"advance", "convert"} /\ pc[u] \in {"advance", "convert"}
    /\ call[t].iter = call[u].iter
    => t = u

\* The inductive invariant behind the safety properties: which labels a method reaches,
\* at which of them its frame owns a count, and what a call of next() holds.
ControlOf(t) ==
  /\ pc[t] = "idle"       => call[t] = Idle
  /\ pc[t] # "idle"       => call[t].method # "none"
  /\ pc[t] # "done"       => ret[t].tag = "none"
  /\ pc[t] = "parse_ip"   => call[t].method \in Single \cup Batch
  /\ pc[t] = "parse_path" => call[t].method \in {"get_path", "get_many_path"}
  /\ pc[t] = "load"       => call[t].method \in Single \cup Batch \cup {"metadata", "iter"}
  /\ pc[t] = "lookup"     => call[t].method \in Single \cup Batch /\ call[t].fed # <<>>
  /\ pc[t] \in {"check", "iterate", "items"} => call[t].method \in Batch
  /\ pc[t] \in {"borrow", "advance", "convert"} => call[t].method = "next"
  /\ pc[t] = "peek"       => call[t].method \in {"closed", "enter"}
  /\ pc[t] = "copy"       => call[t].method = "metadata"
  /\ pc[t] = "build"      => call[t].method = "iter"
  /\ pc[t] = "store"      => call[t].method = "close"
  /\ pc[t] \in {"load", "parse_path"} /\ call[t].method \in Single => call[t].fed # <<>>
  /\ pc[t] \in {"load", "peek"}   => call[t].objects = <<>>
  /\ call[t].method \in Single    => call[t].objects = <<>>

OwnerOf(t) ==
  /\ pc[t] \in {"lookup", "copy", "build", "check", "iterate", "items"} => t \in leases
  /\ pc[t] \in {"parse_ip", "parse_path"} => (t \in leases <=> call[t].method \in Batch)
  /\ pc[t] \in {"idle", "load", "peek", "store", "borrow", "advance", "convert"} => t \notin leases
  /\ ret[t].tag \in ToldClosed => t \notin leases

IterOf(t) ==
  /\ call[t].method = "next" => call[t].iter \in Iter \cap leases
  /\ pc[t] \in {"advance", "convert"} => borrower[call[t].iter] = t

LateOf(t) ==
  /\ ret[t].tag \in ToldClosed => ~slot /\ call[t].objects = <<>>
  /\ call[t].began = "closed" => ~slot
  /\ call[t].began = "closed" /\ call[t].method \notin {"close", "next"} =>
       /\ pc[t] \in {"parse_ip", "parse_path", "load", "peek", "done"}
       /\ pc[t] \in {"parse_ip", "parse_path"} => call[t].method \in Single
       /\ pc[t] = "done" =>
            \/ ret[t].tag \in ToldClosed
            \/ /\ call[t].method \in Single
               /\ ret[t].tag \in {"bad_ip", "wrong_family", "bad_path"}

\* The first n addresses of the call have their records, in order.
Answers(t, n) ==
  /\ call[t].objects = [k \in 1..n |-> Record(call[t].fed[k])]
  /\ \A k \in 1..n : call[t].fed[k] \notin Corrupt

BatchOf(t) ==
  call[t].method \in Batch =>
    /\ pc[t] \in {"load", "check", "parse_path", "iterate", "items", "parse_ip"} =>
         Answers(t, Len(call[t].fed))
    /\ pc[t] = "lookup" => call[t].fed # <<>> /\ Answers(t, Len(call[t].fed) - 1)
    /\ pc[t] = "done" /\ ret[t].tag = "ok" =>
         Answers(t, Len(call[t].fed)) /\ ret[t].vals = call[t].objects

ControlInv == \A t \in Thread : ControlOf(t)
OwnerInv   == \A t \in Thread : OwnerOf(t)
IterInv    == \A t \in Thread : IterOf(t)
LateInv    == \A t \in Thread : LateOf(t)
BatchInv   == \A t \in Thread : BatchOf(t)

\* Every call returns, whatever the others do.
CallsReturn == \A t \in Thread : pc[t] # "idle" ~> pc[t] = "idle"

\* After close() the file is unmapped as soon as the calls that were reading it are over,
\* unless an iterator lives on.
ClosedIsUnmapped == ~slot ~> (~mapped \/ Iter \cap leases # {})

\* What close() documents: it "releases associated resources".  The Reader is alive, so
\* that its slot was emptied by a close() (Store) and not by its deallocation, and every
\* call has returned, that close() among them: the file is no longer mapped.
CloseReleases ==
  ~slot /\ ~gone /\ (\A t \in Thread : pc[t] = "idle") => ~mapped

-----------------------------------------------------------------------------
(* The abstract specification this one implements *)

AbstractPhase(t) ==
  CASE pc[t] = "idle"                              -> "idle"
    [] pc[t] = "done" /\ ret[t].tag = "ok"         -> "answered"
    [] pc[t] = "done" /\ ret[t].tag \in ToldClosed -> "refused"
    [] pc[t] = "done" /\ ret[t].tag \notin ToldClosed \cup {"ok"} -> "failed"
    [] OTHER -> IF call[t].method = "next" THEN "pulling" ELSE "asking"

Lease == INSTANCE ReaderLease
           WITH open <- slot, phase <- [t \in Thread |-> AbstractPhase(t)]

\* The guards, counts and frames of the code give what ReaderLease promises: one instant
\* of admission or refusal per call, leases that outlive close(), memory mapped exactly
\* while the database is open or leased.
ImplementsLease == Lease!Spec
=============================================================================
