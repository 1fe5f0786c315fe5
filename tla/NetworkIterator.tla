-------------------------- MODULE NetworkIterator --------------------------
(***************************************************************************)
(* One ReaderIterator (src/src/iterator.rs) that several threads, or a     *)
(* thread and the Python code its own next() calls, use at the same time.  *)
(*                                                                         *)
(* The crate's Within hands out the networks of the database one by one,   *)
(* here 1..Size in their order, and goes on after one it cannot read.  Its *)
(* stack is read before it is changed: without the exclusive borrow two    *)
(* threads could find the same network.  PyO3 guards the object with a     *)
(* borrow flag: __next__ takes it exclusively, __iter__ shared, and        *)
(* whichever cannot have it raises RuntimeError.  Between the walk and its *)
(* return, __next__ calls a class of the ipaddress module, where other     *)
(* threads run.                                                            *)
(***************************************************************************)
EXTENDS Naturals, Sequences, FiniteSets

CONSTANTS Thread,
          Size,     \* the number of networks in the database
          Corrupt,  \* those that cannot be read or decoded
          None

ASSUME SizeAssumption    == Size \in Nat /\ Corrupt \subseteq 1 .. Size
ASSUME ThreadAssumption  == None \notin Thread

VARIABLES
  position,  \* what Within has handed out is 1..position
  writer,    \* the thread that holds the exclusive borrow
  readers,   \* the threads that hold a shared one
  pc, item,  \* where each thread's call stands, and the network it converts
  given,     \* what each thread's calls of next() returned, in order
  failed     \* the networks some call of next() raised an exception about

vars == <<position, writer, readers, pc, item, given, failed>>

Label == {"idle", "next", "iter", "find", "take", "convert", "stop", "return"}

Init ==
  /\ position = 0
  /\ writer = None /\ readers = {}
  /\ pc = [t \in Thread |-> "idle"] /\ item = [t \in Thread |-> 0]
  /\ given = [t \in Thread |-> <<>>] /\ failed = {}

Goto(t, label) == pc' = [pc EXCEPT ![t] = label]

Call(t) ==
  /\ pc[t] = "idle"
  /\ \E m \in {"next", "iter"} : Goto(t, m)
  /\ UNCHANGED <<position, writer, readers, item, given, failed>>

\* __next__(&mut self): the exclusive borrow, or RuntimeError and nothing is lost.
BorrowMutShared(t) ==     \* mutant: the exclusive borrow is not checked for
  /\ pc[t] = "next" /\ writer' = t /\ Goto(t, "find")
  /\ UNCHANGED <<position, readers, item, given, failed>>
BorrowMut(t) ==
  /\ pc[t] = "next"
  /\ IF writer = None /\ readers = {}
     THEN writer' = t /\ Goto(t, "find")
     ELSE Goto(t, "return") /\ UNCHANGED writer
  /\ UNCHANGED <<position, readers, item, given, failed>>

\* __iter__(PyRef<Self>): the iterator itself.
Borrow(t) ==
  /\ pc[t] = "iter"
  /\ readers' = IF writer = None THEN readers \cup {t} ELSE readers
  /\ Goto(t, "return")
  /\ UNCHANGED <<position, writer, item, given, failed>>

\* self.iter.next(): what the crate's walk finds next, or its end.
FindReadable(t) ==        \* mutant: a network that cannot be decoded is skipped
  /\ pc[t] = "find"
  /\ LET ks == (position + 1 .. Size) \ Corrupt IN
     IF ks = {}
     THEN Goto(t, "stop") /\ UNCHANGED item
     ELSE Goto(t, "take") /\ item' = [item EXCEPT ![t] = CHOOSE k \in ks : \A j \in ks : k <= j]
  /\ UNCHANGED <<position, writer, readers, given, failed>>
Find(t) ==
  /\ pc[t] = "find"
  /\ IF position = Size
     THEN Goto(t, "stop") /\ UNCHANGED item
     ELSE Goto(t, "take") /\ item' = [item EXCEPT ![t] = position + 1]
  /\ UNCHANGED <<position, writer, readers, given, failed>>

\* The walk moves behind it, and process_within_lookup decodes it or raises.
Take(t) ==
  /\ pc[t] = "take"
  /\ position' = item[t]
  /\ \/ item[t] \notin Corrupt /\ Goto(t, "convert") /\ UNCHANGED failed
     \/ item[t] \in Corrupt /\ Goto(t, "return") /\ failed' = failed \cup {item[t]}
  /\ UNCHANGED <<writer, readers, item, given>>

\* network_to_python: the object is made, or the class raises and the network is gone.
Convert(t) ==
  /\ pc[t] = "convert"
  /\ \/ given' = [given EXCEPT ![t] = Append(@, item[t])] /\ UNCHANGED failed
     \/ failed' = failed \cup {item[t]} /\ UNCHANGED given
  /\ Goto(t, "return")
  /\ UNCHANGED <<position, writer, readers, item>>

\* The call returns or raises and its borrow ends ("stop": it raises StopIteration).
Return(t) ==
  /\ pc[t] \in {"return", "stop"}
  /\ writer' = IF writer = t THEN None ELSE writer
  /\ readers' = readers \ {t}
  /\ item' = [item EXCEPT ![t] = 0]
  /\ Goto(t, "idle")
  /\ UNCHANGED <<position, given, failed>>

Step(t) == \/ BorrowMut(t) \/ Borrow(t) \/ Find(t)
           \/ Take(t) \/ Convert(t) \/ Return(t)
Next == \E t \in Thread : Call(t) \/ Step(t)
Spec == Init /\ [][Next]_vars

-----------------------------------------------------------------------------
(* Properties *)

\* Every variable has its type.
TypeOK ==
  /\ position \in 0 .. Size
  /\ writer \in Thread \cup {None} /\ readers \subseteq Thread
  /\ pc \in [Thread -> Label] /\ item \in [Thread -> 0 .. Size]
  /\ given \in [Thread -> Seq(1 .. Size)] /\ failed \subseteq 1 .. Size

GivenTo(t) == {given[t][k] : k \in DOMAIN given[t]}

\* However many threads share the iterator, each of them receives its networks in the order
\* of the database and no network is received twice, by one thread or by two.
OnceInOrder ==
  /\ \A t \in Thread : \A j, k \in DOMAIN given[t] : j < k => given[t][j] < given[t][k]
  /\ \A t, u \in Thread : t # u => GivenTo(t) \cap GivenTo(u) = {}

\* No network disappears: each one the walk has passed was received, or an exception was
\* raised about it, or a call is still converting it; a RuntimeError of the borrow flag
\* costs nothing.
NothingLost ==
  \A k \in 1 .. position :
    \/ \E t \in Thread : k \in GivenTo(t)
    \/ k \in failed
    \/ \E t \in Thread : pc[t] = "convert" /\ item[t] = k

\* A call that is told the end comes when all is over: every network was received or
\* reported, none is still in the hands of another thread.
StopMeansAll ==
  \A t \in Thread : pc[t] = "stop" =>
    1 .. Size = failed \cup UNION {GivenTo(u) : u \in Thread}
=============================================================================
