# maxminddb-rust: verification project

TLA+ models of `maxminddb-rust`, the Rust extension module in `src/src/` that
reads MaxMind DB files for Python, with TLC configurations that check them on
small instances and TLAPS proofs of the properties that matter most. Line
numbers below are those of the repository; `src/src/lib.rs` is its
`src/lib.rs`.

    tlc -workers 2 -config Reader.cfg MCReader.tla             # one run
    tlapm ReaderProofs.tla                                     # one proof module

## 1. Inventory

| Component | State | Operations | Hard part |
|---|---|---|---|
| **Reader** (`lib.rs`) | `reader: ArcSwapOption<ReaderSource>`, `ip_version` copied at creation, `path_cache` | `get`, `get_path`, `get_with_prefix_len`, `get_many`, `get_many_path`, `metadata`, `closed`, `__enter__`, `__exit__`, `close`, `__iter__` | `close()` at any moment of another call; who unmaps the file, and when; batches that run the caller's Python code while they hold the source |
| **Path cache** (`lib.rs:650-703`) | `Mutex<VecDeque<(Py<PyTuple>, Arc<Vec<..>>)>>`, at most 64 entries | probe, insert, evict | probe / parse / insert are separate critical sections; hits by address; Python objects dropped under a mutex; mutex against GIL |
| **Path elements** (`path.rs`) | none | `parse_path`, `path_tuple_matches_owned`, `signed_index_to_owned_path_element` | two pieces of code that must agree, of which one iterates a tuple and the other reads its items; `isize::MIN`, `usize` beyond `isize` |
| **Network iterator** (`iterator.rs`) | a `self_cell` of `Arc<ReaderSource>` and the crate's `Within`; PyO3's borrow flag | `__iter__`, `__next__` | shared by threads; re-entered by the `ipaddress` class it calls; outlives `close()`; errors in the middle |
| **Address parser** (`ip.rs`) | locals | `parse_ip_address`, `parse_ipv4_string` | hand-written fast path with a `u16`, a fixed array and early returns |
| **Opening** (`open.rs`, `lib.rs:613-648`) | file, mapping or buffer | the six modes | failure half way; GIL released; the file replaced meanwhile |
| **Metadata** (`metadata.rs`) | a copy of the metadata | getters, `node_byte_size`, `search_tree_size` | `u32` product |
| **Decoder** (`decode.rs`) | thread-local map-key cache (256 entries, `RefCell`) | serde visitor | recursion, errors in the middle, cache limit |
| **Prefix length** (`lib.rs:162-176`) | none | `convert_prefix_len` | saturation |
| **Example programs** (`examples/*.py`) | locals; the readers and iterators they have open | 18 functions of four `main()`s: lookups, iteration, batches | what is still open when any call raises; loops with limits, chunks and statistics; what is printed about the reader |
| Module definition, stubs, benchmarks, scripts, workflows | - | - | no logic to verify |

How they interact. A `Reader` method parses its arguments (parser, path
elements through the path cache), loads the slot, and reads the source; every
one of these may run Python code (an `ipaddress` object's attributes, a
generator of addresses, a path that is an arbitrary iterable, a finalizer), and
Python code may call the same reader again. `__iter__` moves one owner of the
source into a `ReaderIterator`, which lives on its own. The only state shared
by threads is the slot with its reference count, the path cache behind its
mutex, and each iterator behind its borrow flag. On standard CPython the GIL
serialises the steps except where Python code runs or the GIL is released; on
free-threaded CPython (which the repository ships wheels for) it does not.

What makes each component correct:

* *Reader*: no read of unmapped memory; unmapped exactly when the last owner
  goes; a call sees one state, open or closed, and never half of each; a closed
  database gives no data; a batch is complete, in order, or an exception;
  calls return.
* *Path cache*: a call gets the path of its own tuple; no duplicates; bounded;
  FIFO; no deadlock.
* *Path elements*: a hit is what parsing gives, for a tuple that yields its own
  items; an index means what a Python subscript means.
* *Network iterator*: each network once, in order, none silently lost, the end
  told at the end.
* *Address parser*: accepts strict dotted decimal and nothing else; no wrap, no
  index out of bounds.
* *Opening*: a failure leaves nothing behind; a reader has one version of a file
  that others replace; opening is atomic with respect to the replacement.
* *Decoder*: a record comes back exactly, or as an exception; the key cache is
  bounded and never borrowed twice.
* *Prefix length, metadata*: the prefix is the set of addresses with the same
  answer; the size is that of the tree, below the width of the word.
* *Example programs*: nothing stays mapped; what a program is to expect is handled;
  limits, pairing, sums and sets are right; a search over the networks agrees with
  `get()` where the answer is a network of IPv4 addresses.

The hazards these properties are aimed at are listed, line by line, in
`PROJECT.json`.

## 2. Modules

| Module | What it is |
|---|---|
| `ReaderLease` | abstract specification: who may read the database, without pointers, guards or counts |
| `Reader` | the Reader class and the lifetime of its source; implements `ReaderLease` |
| `PathCache` | `get_or_parse_path` |
| `PathElements` | `path.rs` |
| `NetworkIterator` | one `ReaderIterator` shared by threads |
| `Ipv4Parser` | `parse_ipv4_string` |
| `AtomicOpen` | abstract specification: opening takes the file at one instant |
| `OpenDatabase` | `Reader::new` and `open.rs`, with other processes at the file; implements `AtomicOpen` |
| `Decoder` | `decode.rs` in one thread |
| `SearchTree` | the search tree as the crate reads it, and the question a program asks |
| `PrefixLength`, `Metadata`, `IteratorDemo` | three clients of `SearchTree`: `convert_prefix_len`, the computed sizes, and what `examples/iterator_demo.py` computes |
| `TreeQueries` | composes these three over one database |
| `ExamplePrograms` | the control flow of all four programs of `examples/`, with exceptions |
| `BatchProcessing` | what `examples/batch_processing.py` computes |
| `MC*` | symmetry and instance sets for TLC |
| `*Proofs` | theorems, checked by TLAPS |

In the modules, an operator whose name extends that of another and whose
comment begins with *mutant* is a deliberately wrong version of the definition
that follows it. It is not used by any specification; it is what a run is
repeated with to see that the property would notice.

### Reader

State: `slot` (the `ArcSwapOption` holds the source), `strong` (the count of the
`Arc`), `mapped` (the bytes are there), `leases` (the owners of a count: threads
in a call, iterators), `gone` (the Reader was deallocated), `borrower` (PyO3's
exclusive borrow of each iterator), and for each thread `pc`, `call` (its frame)
and `ret` (its result). A *thread* is one activation of Python code: a callback
that calls the reader while its caller is inside a batch is another one.

The source is reference counted: `Load` takes a count (`ArcSwapOption::load`'s
guard, or `load_full`), `Build` moves it into an iterator, `Finish` drops what
the frame owns, `Store` makes the closing call the owner of the slot's count
until it returns, `DropIter` and `DropReader` are Python's deallocations. The
debt slots with which arc-swap avoids touching the counter in `load` are
abstracted to the count they stand for.

Each action is the code between two accesses to shared state: `ParseIp`,
`ParsePath` (which calls the path cache), `Load`, `Check`, `Iterate`,
`NextItem`, `Lookup` (with the conversion of its result), `Copy` (metadata),
`Peek` (`closed`, `__enter__`), `Store` (`close`, `__exit__`), `Build`,
`Borrow`, `Advance`, `Convert`, `Finish`. The order in which a method goes
through them is the code's: single lookups parse before they load, batch methods
load first, `get_many_path` parses the path after the check of its iterable.

Data: an address is a model value that has a record, has none (`Absent`), cannot
be decoded (`Corrupt`), or is not an address (`NotAnIp`); a record is named by
its address. `MaxBatch` bounds the items a caller's iterable yields.

### ReaderLease

A call is admitted at one instant at which the database is open, or refused at
one instant at which it is closed; who is admitted keeps a lease; the memory is
mapped exactly while the database is open or leased. `Reader` maps `slot` to
`open` and each program counter to a phase, keeps `leases`, and drops `strong`,
frames, borrows and arguments. `ImplementsLease` (`Lease!Spec`) is a property of
run `reader`.

### PathCache

`Probe`, `Parse`, `Insert`, `Evict`, `Push` are the critical sections and what
happens between them. Tuples are addresses whose contents may be replaced
(`Recycle`) when nothing refers to them, as an allocator does; the contents are
named by the path they parse to, which `PathElements` justifies for tuples whose
iteration yields their own items. The interpreter
lock is a second lock, `gil`: a thread holds it except where Python code runs. A
free-threaded build has none, which is the value `NoGil` of the variable; with
`FreeThreading` both kinds of build are initial states. With `Finalizers`, dropping a tuple may run Python code, in which case the
thread may lose the GIL or call the reader again; the label `reenter` has no
outgoing step because `std::sync::Mutex` never grants a lock to its holder.

### PathElements

Items of a path are records; machine integers have the range of a width given by
`Half`. `ParseItem` and `FromSigned` are `parse_path`'s loop body, `MatchItem`
and `Matches` are `path_tuple_matches_owned`. The two read a tuple differently: the
parser iterates it (`path`), the matcher reads the items it holds (`items`). They
are the same sequence unless a subclass of `tuple` has an `__iter__` of its own,
which may yield any member of `Walk`. `HitIsParse` says of every tuple what a hit by
contents means for the items it holds, and that this is what parsing gives where
`path = items`; for such a subclass it claims no more. Tuples with integers at, around
and beyond the ends of `isize` and `usize` are enumerated by the run.

### NetworkIterator

`BorrowMut` is the exclusive borrow of `__next__(&mut self)`, `Borrow` the shared
one of `__iter__`; `Find` and `Take` are the crate's walk and
`process_within_lookup`, `Convert` is `network_to_python`, `Return` ends the
call and its borrow. The networks of the database are 1..`Size` in their order.

### Ipv4Parser

The loop of `parse_ipv4_string`, one byte per step, with its `u16` and its cast,
against `IsAddress`, a definition of strict dotted decimal that splits the text
at its dots. The text is not chosen beforehand: every step reads any byte, so
that the run covers every text up to the byte at which it is rejected. `Last`,
the index of the last octet, is 3 in the code.

### OpenDatabase and AtomicOpen

The file system is a directory entry `dir` and inodes of two blocks, each with the
bytes of a version of the database; other processes `Replace` the file (rename
another one over it), `Unlink` it, or, if `inplace`, `Overwrite` blocks of it. A
call is `Call` (the mode, looked at first), `ExtractPath` (`str` or
`__fspath__`), `OpenFile`, then `Map` or block after block `Read`, or
`ReadObject` for `MODE_FD`; then `Verify`, which creates the reader. Every one
may raise; `Raise` drops what the frame owns. `AtomicOpen` has one instant at
which a call takes the current contents and one at which it finds no file;
`OpenDatabase` maps its inode to what it has taken, and a database that is
overwritten in place, of which the abstract specification says nothing, to a
system that stands still.

### Decoder

A record is a tree of maps, lists and scalars. The recursion of the serde visitor
is a stack `frames`; `hand` is what is done next. `NextKey`, `NextElement`,
`Give` are the loops of `visit_map` and `visit_seq`; `Set`, `SetFails`,
`RefuseKey` are `set_cached_map_item` under the `RefCell`'s borrow. `Collect` is a
garbage collection at an allocation whose finalizer looks up another address: a
decode on top of the one in progress, with the same cache. `Part` is every part of every
record and `Depth` how deep it is nested, which only the comparison with `PyOf` and
the proofs use.

### SearchTree, PrefixLength, Metadata, IteratorDemo, TreeQueries

An address is a sequence of bits and a tree the set of the paths to its leaves, so
that *every* tree over short addresses can be enumerated. IPv4 addresses live
below `Padding` zeros of an IPv6 tree, 96 in reality. `PrefixLength` walks to the
leaf (`Walk`), lets the crate name its network in either of the forms it may have
(`Network`), and converts its length (`Convert`). `Metadata` copies
(`FromMaxmind`) and multiplies at the width of the word (`SearchTreeSize`).
`IteratorDemo` has the loop bodies of `iterator_demo.py` over the networks in the
order of the tree (`InOrder`), of every IPv4 or IPv6 tree up to `MaxLeaves`, with
leaves above the IPv4 node among them; a record is its country's code and its
continent's, either of which it may lack. `TreeQueries` chooses a database and the question; only the
actions of that question are enabled. The variables of these modules have the
types their declarations name; no invariant repeats them.

### ExamplePrograms and BatchProcessing

A program of `ExamplePrograms` is a list of functions, a function the list of its
statements that open, use or close a reader, print whether it is open, loop or
catch. The statements have CPython's meaning: an exception unwinds `blocks`, a
`with` block closes its reader, a `for` block drops its iterator, a `try` block
catches what it names. Every call raises what its Rust code raises there: opening
(`OpenErrors`), a lookup (`LookupErrors`, with the "Database error" `ValueError` of
`lookup_error` besides the one of a bad address or a closed reader), `__iter__`
(`IterErrors`: the root network, the walk, the import of `ipaddress`) and `__next__`
(`StepErrors`). A lookup or a step also raises what the program's own code does with a
record of another shape (`RecordError`), whether that program looks into the record
or not. A batch with a bad address is its lookups one by one, of which an earlier one
may raise something else. Errors of the interpreter itself (memory, output, a clock
that stands still) are left out. `BatchProcessing` has the data those functions leave out: generated
addresses, chunks, pairing, counts; `get_many()` is one step there. What its
functions count is compared with `Tally`, the bag of what a function on the
indexes with data (`Found`) gives. The two modules, and `PathElements` beside
`PathCache`, are proved about in one module each time and share no name, which is
why their specifications are called `BatchSpec` and `ParseSpec`.

## 3. Runs

| Run | Shows | Bounds, and why they suffice |
|---|---|---|
| `reader` | `CountExact`, `NoUseAfterUnmap`, `ClosedIsNeverPartial`, `LateCallsGetNothing`, `BatchComplete`, `OneBorrower`, `ImplementsLease`; `CallsReturn` and `ClosedIsUnmapped` under fairness | 2 threads, 2 iterators, every method, batches of up to 2 items with every kind of address: a call and a close, two closes, or two users of an iterator, at every pair of steps. That a third thread changes nothing is what the proofs show |
| `reader_close_doc` | finding 1 | 2 threads, 1 iterator |
| `path_cache` | `OwnPath`, `NoDuplicates`, `Fifo`, and `CallsReturn`: no deadlock of mutex and GIL | with and without GIL; 2 threads with 2 calls each, 3 addresses, 3 contents that parse, 2 entries: a full cache, eviction, addresses used again |
| `path_cache_finalizer` | finding 2 | 1 entry, so that the second path evicts; finalizers run Python code |
| `path_elements` | `HitIsParse`, `IndexIsSubscript` | 3-bit integers from one below `isize::MIN` to one above `usize::MAX`, tuples of up to 2 items, and a subclass that yields something else, against every cached path of up to 2 elements |
| `network_iterator` | `OnceInOrder`, `NothingLost`, `StopMeansAll` | 3 threads, 4 networks, one of them corrupt |
| `ipv4_parser` | `AcceptsExactly` | digits 0, 2, 5, 6 (leading zeros, 255, 256), 3 octets instead of 4: first, middle and last |
| `open_database` | `NoLeak`, `OneVersion`, `ImplementsAtomicOpen`, `Frozen` | 2 openers, 3 inodes (one for each opener's file and one to replace it with), a good and a bad version, 2 blocks: every torn read |
| `tree_queries` | `PrefixIsLeaf`, `ExactBelowLimit`, `PrintsFirst`, `StatisticsAddUp`, `SearchAgreesWithGet` | IPv4 addresses of 2 bits, IPv6 ones of 4: leaves above, at and below the IPv4 node; every tree for the first two, up to 5 leaves for the examples, with every choice of no record or one of three (`MCTreeQueries`: both codes, no continent, no country), limit 2; a word of 64, which the larger trees exceed |
| `decoder` | `ResultIsRecord`, `NoDoubleBorrow`, and `TypeOK` with the cache's bound | 7 records with nesting, repeated keys, bad keys, unreadable data; 2 cached keys of 4; a decode inside a decode |
| `example_programs` | `NothingLeftMapped`, `ReportsAreTrue`, `ExpectedErrorsAreHandled`, `Terminates` | all four programs, each kind of exception at each call; databases of up to 3 networks |
| `batch_processing` | `EachAskedOnce`, `OutputIsOfTheDatabase` | every database of 3 addresses, 0 to 7 generated addresses, chunks of 1 to 3: no chunk, whole and short last chunks |

Deadlock is checked except where the system may stop: a finished parse
(`path_elements`, `ipv4_parser`), an answered question or a finished program
(`tree_queries`, `example_programs`, `batch_processing`), and threads that wait
for each other (`path_cache_finalizer`, whose `reenter` is a thread that waits
for itself). In `reader` and `path_cache` a state in which all calls are made
and over is no deadlock (`Over`).

**Fairness.** `FairSpec` in `Reader` and `PathCache` is weak fairness of the
steps a thread takes inside a call: they are straight-line native code of a
thread the operating system schedules, and the caller's iterable is finite
(`MaxBatch`). Nothing is assumed of callers: no call has to be made, no iterator
or reader to be dropped. No step of a call waits for another thread except for
the mutex (and the GIL), which is why weak fairness is enough. In
`ExamplePrograms` it is weak fairness of the only thread; a database has finitely
many networks (`Networks`), and the loop over them is the crate's walk.

**Findings.**

1. `reader_close_doc`: `close()` documents that it "releases associated
   resources" (`lib.rs:492`), but an iterator made before keeps the file mapped,
   and readable, until it is dropped: in the run an iterator is made, `close()`
   runs and returns, the Reader is alive and closed, no call is left, and the file
   is mapped. The lifetime is safe (`NoUseAfterUnmap`); the sentence is not exact.
2. `path_cache_finalizer`: `cache.pop_front()` (`lib.rs:666`) drops the evicted
   tuple before the lock guard. If the tuple holds an instance of a `str` or `int`
   subclass with a finalizer and the cache has the last reference, Python code
   runs under the mutex: a lookup from it waits for its own thread, and under the
   GIL another thread may be switched in and wait for the mutex without releasing
   the GIL. Dropping the popped entry after the guard would remove both.

Smaller observations that are not findings: the path cache takes a tuple for
immutable (`lib.rs:269`) and accepts subclasses (`lib.rs:653`); one whose `__iter__`
yields something else than its items is parsed by what it yields (`path.rs:59`) and
compared by its items (`path.rs:18`), so that a path by the same items that is cached
answers for it, where parsing would have given another path or a `TypeError`
(`HitIsParse` states the exception). `search_for_network()` in
`examples/iterator_demo.py` says "not found" of every IPv4 address when an IPv6 tree
answers them by a leaf above their node, whatever `get()` finds there
(`SearchAgreesWithGet` states this case; published databases give IPv4 addresses nodes
of their own). `metadata()` raises
`OSError` where `close()` speaks of `ValueError` (`lib.rs:483`, documented at
`lib.rs:470`); a single lookup on a closed reader reports a bad argument first
(`LateCallsGetNothing` states exactly that). `search_tree_size` is a `u32` product
(`metadata.rs:64`) and wraps for trees of 4 GiB and more, where the documentation
(`metadata.rs:61`) gives no limit: `ExactBelowLimit` holds up to that limit and not
beyond. The decoder creates the exception of a key that is not UTF-8 with the key
cache borrowed (`decode.rs:279`): on CPython 3.8 to 3.11 a garbage collection, and a
lookup from a finalizer, may start there and would panic on the second borrow;
`NoDoubleBorrow` shows that this is the only such place. `examples/basic_usage.py`
has no `with` statement and leaves its reader to its deallocation when a lookup
raises (the exception `NothingLeftMapped` names). `ip.rs` recognises `ipaddress`
objects by the name of their type, so that a subclass such as `IPv4Interface` gets
a `TypeError`, and an `IPv6Address` with a scope is accepted as an object where its
text is refused.

## 4. Proofs

TLAPS checks, for every value of the constants that satisfies the named
assumptions:

| Module | Theorems | Argument |
|---|---|---|
| `ReaderProofs` | `TypeCorrect`, `CountIsExact`, `ReadsAreMapped`, `NextIsExclusive`, `BatchesAreNotTorn`, `CloseIsFinal`, `BatchIsComplete`, `RefinesLease` | below |
| `PathProofs` | `CacheIsBounded`, `PathIsOwn`, `CachedOnce`, `EvictsOldest`; `ParsesToPath`, `CacheHitIsParse`, `IndexesAreSubscripts` | an entry keeps its tuple alive, so its path is what the tuple at its address stands for (`Faithful`); the holder of the mutex (`Owner`) found neither its tuple nor its path and has room (`Vacant`), and still knows its own path (`Knows`); so a hit is a single entry (`HitIsOwn`). An item matches an element exactly if it parses to it, item by item (`MatchesIsStandsFor`); while parsing, `owned` is the parse of what was yielded, and at the end stands for all of it (`ParsedIsStandsFor`) |
| `NetworkIteratorProofs` | `TypeCorrect`, `ReceivedOnceInOrder`, `NoNetworkDisappears`, `EndIsTheEnd` | only the holder of the exclusive borrow is inside `next()` (`Exclusive`), so the network in hand is the next or the last one and nobody received it (`InHand`), and whatever was received lies behind the position (`Behind`) |
| `OpenDatabaseProofs` | `TypeCorrect`, `NothingLeaks`, `ReaderHasOneVersion`, `StaysFrozen`, `RefinesAtomicOpen` | what a call owns at each point (`Phases`) and what it has seen (`Versions`): the blocks read so far are those of the inode it has open, which nobody uses for another file; a step of a call is invisible to the others (`Alone`), an exception is `Miss` or `Fail`, and the open is the instant of `Take` |
| `Ipv4ParserProofs` | `InBounds`, `AcceptsExactlyAddresses` | the bounds are inductive: a digit is taken only if the number stays an octet, an octet stored only below `Last`; what has been read is (`Follows`) the decimal forms of the octets stored so far and of the value being read, which are what `IsAddress` finds between the dots; a text that is rejected has a field that is nobody's decimal form, and keeps it, or has a dot too many |
| `DecoderProofs` | `TypeCorrect`, `ReturnsTheRecord`, `BorrowsOnce` | below |
| `TreeQueriesProofs` | `PrefixOfLeaf`, `SizeIsExact`, `PrintsTheFirst`, `StatisticsAreExact`, `SearchFindsIPv4Networks` | below |
| `ExampleProofs` | `AsksForEachOnce`, `PrintsWhatIsFound`; `NothingStaysMapped`, `OwnErrorsHandled`, `SaysTheTruth` | below |

The invariant of `Reader`. `CountExact` alone is not inductive: whether `Finish`
may drop a count depends on whether the frame owns one, which depends on the
method and on how far it has come. `ControlInv` says which methods reach which
label; `OwnerInv` says at which labels a frame owns a count; `IterInv` says that
a pending `next()` keeps its iterator and, past `Borrow`, holds its borrow;
`LateInv` says that a call told "closed" is right, owns nothing and has
collected nothing, and what a call that began after `close()` can still do. Each
of `TypeOK`, `CountExact` and these four is preserved by every action
(`TypedStep`, `CountStep`, `ControlStep`, `OwnerStep`, `IterStep`, `LateStep`);
`Invariance` puts them together and each theorem follows from their conjunction.
The four parts were model-checked as invariants before they were proved.

Two more rest on it. `BatchInv` says that a batch has collected the records of the
items it was fed, all but the one in hand, and that none was corrupt;
`BatchIsComplete` is that at the end. `RefinesLease` is step simulation: the memory
is mapped exactly while the reader is open or leased (`Held`, from `CountExact`),
`ThreadRefines` maps each step of a thread to the action of `ReaderLease` that
admits, refuses, ends or fails a call, or to none, and a call that is admitted or
refused has not yet been answered otherwise because of `LateInv` and `OwnerInv`.

The decoder. What a record is in Python is a recursive function, `PyOf`. That it
exists (lemma `PyOfDefined`) is proved by gluing together the functions on parts of
bounded depth. The induction the prover lacks is made by hand, as a least
counterexample (`LeastNatural`). `IInv` then says of every frame of the
stack what it awaits and that the container it builds is the value of its first
items (`Level`), and of the cache that each key maps to its own `str`
(`CacheInv`). A call inside a call adds frames and changes none below, so the
invariant is one about each frame and the one above it. `BorrowInv`, the flag is
set only while a key is set or refused, gives `BorrowsOnce`.

The trees. `Trees` is a recursive function of sets of sets; that it is defined and
that each member is a tree, finite and with exactly one leaf on the way of every
key (`IsTree`), is again proved by least counterexample. So `LeafOf` is
unique (`LeafIs`). `WalkInv` ties the reported length to the depth of that leaf,
`MetaInv` the size to the copy of the metadata. No two leaves agree
up to the end of one of them (`LeavesDiffer`), so the order of the tree is total and
`InOrder` lists a set of leaves without gap (`InOrderIs`). `DemoInv(m)` says
what each function has printed and counted after the first m networks:
`OneMore` is the step from m to m + 1 for any set of networks, `OneMoreMet` for the
codes met so far, `NextOfUS` that the next network of the United States is the next
of their list, and `ContainsIs` that a network of IPv4 addresses contains the
address exactly if it is the leaf that `get()` reads.

The batches. `BatchInv` says that the list is the samples over and over
(`SampleInv`), that what was asked for is its beginning (`AskedInv`) and ends where
the next chunk starts or with the list (`ChunkInv`), and that the tallies are those
of the results read so far (`TallyInv`). `RoundedUp` is the arithmetic of
`TotalChunks`: the k-th chunk is the last one exactly if k is the length divided by the
chunk size, rounded up. `TallyGrows` is one more result counted, for any of the
infinitely many databases.

The programs. A program is a text with jumps, so its invariant is an annotation of
each statement, as Floyd's: `Outline` notes for each what blocks are around it, which
readers are open and which closed, and whether a loop has an item in hand. `Nests` is the
condition on a text and its notes, statement by statement: each note leads to the
notes of the statements that may be next (`Follows`), and to the note at the handler
of every `try` block around it (`Handled`). `ProgramsNest` shows it of every
function; `ProgramInv`, that the notes are true of the state, is then preserved for any
text that satisfies it, one lemma for each kind of statement and `RaiseKeeps` for an
exception at any of them. Whatever is open belongs to a `with` block (`Guarded`), except in
`basic_usage.py`: this is why an exception that gets out leaves nothing open.
A lookup of a bad address or with a closed reader stands in a `try` block (`Expected`),
and in the function with exception handling opening and the lookup stand where
the handlers of all their errors are (`HandledThere`). `FourInv` is
the loop invariant of the function with exception handling: the addresses reported
and those left are the list. Both were model-checked, and `Nests` evaluated by
TLC for each function, before they were proved.

The assumptions: finitely many threads and iterators, disjoint, and different
from `None`; disjoint sets of addresses; `IpVersion` 4 or 6 (the crate refuses
other databases when it opens them). For the path cache: a limit of at least one
entry, contents that parse apart from contents that do not, `None` apart from
both and from threads and tuples, and `NoGil` apart from threads; the sets may be
infinite, and the build may have a GIL or none. For opening: `None` is neither a
file nor a version; there may be any number of openers, files and versions, and
a file has the two blocks of the model. For the address parser: a dot and other
bytes that are no digits. For the decoder: records whose parts are nested less
deep than they are, to some limit (the crate refuses deeper ones). For the trees:
addresses of at least one bit, of any width, at least one bit of padding, a limit
of at least one network, `None` no record, and `Unknown` not the United States. For the batches: a list of at
least one sample, any count, chunks of at least one address. For the programs: any
number of networks in a database.

Only model-checked: liveness (`CallsReturn`, `ClosedIsUnmapped`, `Terminates`),
which is out of the prover's reach. Every safety property of a passing run is a
theorem. `reader_close_doc` and `path_cache_finalizer` end in a violation and leave
nothing to prove.

## 5. Not modelled

The search-tree walk and the reading of the data section are the `maxminddb`
crate's; the standard library's address parser, `ipaddress`, arc-swap's internals,
PyO3 and CPython appear as what the code relies on. Where the crate may name the
network of an IPv4 leaf in two forms, `Network` may choose either. The scalar visit
methods of the decoder are one step; error texts, printed layout, timings and the
module definition have no state the properties speak of. Memory exhaustion (but for
a failed dict insertion) and poisoned mutexes (no step that panics holds the path
cache's lock) are left out. A file that is truncated while it is mapped is not
modelled: reading it is a `SIGBUS` outside the program's control, as for every
mapped file. A batch's iterable is read item by item; the length that `list()` and
`tuple()` arguments tell beforehand (`ips.len()`) sizes a vector and is left out.
That an iterator can be used on after an exception is possible in `NetworkIterator`, but
no property requires it. The `u32` product of the tree size wraps, and no property
speaks of larger trees. The benchmarks, the release script and the workflows
measure and publish.

## 6. Plan

1. A module that composes `Reader` with `PathCache`, so that a batch's callback
   re-enters `get_path` while the batch holds its lease.
2. The decision tree of `parse_ip_address` (which object is read in which way).
