---------------------------- MODULE ReaderLease ----------------------------
(***************************************************************************)
(* What a Reader promises its callers about the lifetime of the database,  *)
(* stated without pointers, guards or reference counts.                    *)
(*                                                                         *)
(* The database is open until somebody closes it.  A call that needs the   *)
(* data either takes a lease on it at one instant at which the database is *)
(* open, and is then served whatever happens to the reader, or is told at  *)
(* one instant at which the database is closed that it is closed.  The     *)
(* memory is mapped exactly while the database is open or leased.  An      *)
(* iterator keeps the lease of the call that created it.                   *)
(***************************************************************************)
CONSTANTS Thread,   \* the activations of Python code that call the reader
          Iter      \* the iterators that exist at one time

VARIABLES open,     \* no close() has taken effect
          mapped,   \* the file's bytes are in the address space
          leases,   \* the threads and iterators that may read those bytes
          phase     \* how far each thread's call has come

vars == <<open, mapped, leases, phase>>

Phase == {"idle", "asking", "pulling", "answered", "refused", "failed"}

TypeOK == /\ open \in BOOLEAN
          /\ mapped \in BOOLEAN
          /\ leases \subseteq Thread \cup Iter
          /\ phase \in [Thread -> Phase]

Init == /\ open = TRUE
        /\ mapped = TRUE
        /\ leases = {}
        /\ phase = [t \in Thread |-> "idle"]

\* Every step that changes who may read the bytes settles whether they stay mapped.
Settle == mapped' = (open' \/ leases' # {})

Becomes(t, p) == phase' = [phase EXCEPT ![t] = p]

Ask(t) ==
  /\ phase[t] = "idle"
  /\ Becomes(t, "asking")
  /\ UNCHANGED <<open, mapped, leases>>

\* A call of next() on an iterator, which has a lease of its own.
Pull(t) ==
  /\ phase[t] = "idle" /\ Iter \cap leases # {}
  /\ Becomes(t, "pulling")
  /\ UNCHANGED <<open, mapped, leases>>

\* The instant at which a call is admitted: the database is open.
Grant(t) ==
  /\ phase[t] = "asking" /\ open
  /\ leases' = leases \cup {t}
  /\ Settle
  /\ UNCHANGED <<open, phase>>

\* The instant at which a call learns that the database is closed.
Refuse(t) ==
  /\ phase[t] = "asking" /\ ~open
  /\ Becomes(t, "refused")
  /\ UNCHANGED <<open, mapped, leases>>

\* A rejected argument, corrupt data, an exception of the caller's own code.
Fail(t) ==
  /\ phase[t] \in {"asking", "pulling"}
  /\ Becomes(t, "failed")
  /\ UNCHANGED <<open, mapped, leases>>

\* A result read from the mapped bytes: under the call's own lease, or under that of
\* the iterator it pulls from.
Answer(t) ==
  /\ \/ phase[t] = "asking" /\ t \in leases
     \/ phase[t] = "pulling" /\ Iter \cap leases # {}
  /\ Becomes(t, "answered")
  /\ UNCHANGED <<open, mapped, leases>>

\* A call that only looks whether the database is open and finds that it is.
Observe(t) ==
  /\ phase[t] = "asking" /\ open
  /\ Becomes(t, "answered")
  /\ UNCHANGED <<open, mapped, leases>>

\* The call hands its lease to a new iterator.
HandOver(t, i) ==
  /\ phase[t] = "asking" /\ t \in leases /\ i \notin leases
  /\ leases' = (leases \ {t}) \cup {i}
  /\ Becomes(t, "answered")
  /\ Settle
  /\ UNCHANGED open

\* Closing takes effect at once; the closing call itself lets go last.
Close(t) ==
  /\ phase[t] = "asking"
  /\ open' = FALSE
  /\ leases' = IF open THEN leases \cup {t} ELSE leases
  /\ Becomes(t, "answered")
  /\ Settle

Finish(t) ==
  /\ phase[t] \in {"answered", "refused", "failed"}
  /\ Becomes(t, "idle")
  /\ leases' = leases \ {t}
  /\ Settle
  /\ UNCHANGED open

DropIter(i) ==
  /\ leases' = leases \ {i}
  /\ Settle
  /\ UNCHANGED <<open, phase>>

DropReader ==
  /\ open' = FALSE
  /\ Settle
  /\ UNCHANGED <<leases, phase>>

Next == \/ \E t \in Thread : \/ Ask(t) \/ Pull(t) \/ Grant(t) \/ Refuse(t) \/ Fail(t)
                             \/ Answer(t) \/ Observe(t) \/ Close(t) \/ Finish(t)
                             \/ \E i \in Iter : HandOver(t, i)
        \/ \E i \in Iter : DropIter(i)
        \/ DropReader

Spec == Init /\ [][Next]_vars
=============================================================================
