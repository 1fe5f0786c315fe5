-------------------------- MODULE ExamplePrograms --------------------------
(***************************************************************************)
(* The programs of examples/ as clients of the module: which reader they   *)
(* have open when, and what becomes of it when any call raises.            *)
(*                                                                         *)
(* A program is a sequence of functions, a function a sequence of the      *)
(* statements that matter to a reader.  An exception unwinds the blocks    *)
(* around the statement, as CPython does: a with block closes its reader,  *)
(* a for block drops its iterator, a try block catches what it names.      *)
(* A statement may raise what the module raises there and what the program *)
(* does with the result; errors of the interpreter itself, of its memory,  *)
(* its output or its clock, are left out.                                  *)
(***************************************************************************)
EXTENDS Integers, Sequences, FiniteSetsExt

CONSTANT Networks   \* networks in a database, at most

ASSUME NetworksAssumption == Networks \in Nat

VARIABLES file,       \* the program that runs
          nth,        \* which function of its main() runs
          pc,         \* the statement that is next
          blocks,     \* the blocks around it
          readers,    \* what the local variables hold
          todo,       \* what the loop over addresses or chunks has left
          reported,   \* what it is done with
          raised      \* the exception that left the function

vars == <<file, nth, pc, blocks, readers, todo, reported, raised>>

Name == {"reader", "city_reader", "country_reader"}
Statement(do, on, arg) == [do |-> do, on |-> on, arg |-> arg]

Open(x) == Statement("open", x, "")              \* x = open_database(...)
With(x) == Statement("with", x, "")              \* with open_database(...) as x:
Try(es, handler) == Statement("try", es, handler)
End == Statement("end", "", "")                  \* of a with or try block
Get(x, ip) == Statement("get", x, ip)            \* x.get(ip), x.get_many([.., ip, ..])
Metadata(x) == Statement("metadata", x, "")
Close(x) == Statement("close", x, "")
Says(xs, b) == Statement("says", xs, b)          \* prints whether xs are closed
Goto(n) == Statement("goto", "", n)
ForEach(items) == Statement("foreach", "", items)
Next(out) == Statement("next", "", out)          \* the head of that loop
Report == Statement("report", "", "")            \* and the end of its body
Iterate(x) == Statement("iterate", x, "")        \* for network, data in x
Advance(out) == Statement("advance", "", out)    \* the head of that loop
MayBreak(out) == Statement("break", "", out)     \* if ...: break

\* Kinds of exceptions.  Two are a ValueError: that of a bad address or a closed reader, and
\* the "Database error" that stands for whatever else a lookup fails with.
ValueErrors == {"ValueError", "DatabaseError"}

-----------------------------------------------------------------------------
\* examples/basic_usage.py
BasicUsage ==
  <<Open("reader"), Get("reader", "8.8.8.8"), Get("reader", "1.1.1.1"),
    Get("reader", "208.67.222.222"), Metadata("reader"), Says({"reader"}, FALSE),
    Close("reader"), Says({"reader"}, TRUE),
    Try(ValueErrors, 12), Get("reader", "8.8.8.8"), End>>

\* examples/context_manager.py
BasicContextManager ==
  <<With("reader"), Says({"reader"}, FALSE), Get("reader", "8.8.8.8"), End,
    Says({"reader"}, TRUE)>>

FourAddresses == <<"8.8.8.8", "1.1.1.1", "invalid-ip", "208.67.222.222">>

\* mutant: the handler does not return
ExceptionHandlingFalls ==
  <<Try({"OSError", "InvalidDatabaseError"}, 13), With("reader"), Says({"reader"}, FALSE),
    ForEach(FourAddresses), Next(11), Try(ValueErrors, 9), Get("reader", "item"), End,
    Report, Goto(5), End, End, Says({"reader"}, TRUE)>>

\* mutant: the first bad address ends the loop
ExceptionHandlingStops ==
  <<Try({"OSError", "InvalidDatabaseError"}, 14), With("reader"), Says({"reader"}, FALSE),
    ForEach(FourAddresses), Next(11), Try(ValueErrors, 11), Get("reader", "item"), End,
    Report, Goto(5), End, End, Says({"reader"}, TRUE)>>

\* mutant: a bad address is tried again
ExceptionHandlingRetries ==
  <<Try({"OSError", "InvalidDatabaseError"}, 14), With("reader"), Says({"reader"}, FALSE),
    ForEach(FourAddresses), Next(11), Try(ValueErrors, 5), Get("reader", "item"), End,
    Report, Goto(5), End, End, Says({"reader"}, TRUE)>>

ExceptionHandling ==
  <<Try({"OSError", "InvalidDatabaseError"}, 14), With("reader"), Says({"reader"}, FALSE),
    ForEach(FourAddresses), Next(11), Try(ValueErrors, 9), Get("reader", "item"), End,
    Report, Goto(5), End, End, Says({"reader"}, TRUE)>>

MultipleDatabases ==
  <<With("city_reader"), With("country_reader"), Get("city_reader", "8.8.8.8"),
    Get("country_reader", "8.8.8.8"), End, End,
    Says({"city_reader", "country_reader"}, TRUE)>>

DifferentModes ==
  <<With("reader"), Get("reader", "8.8.8.8"), End, With("reader"), Get("reader", "1.1.1.1"), End>>

\* examples/iterator_demo.py.  islice() ends a loop as the end of the database does.
BasicIteration == <<With("reader"), Iterate("reader"), Advance(5), Goto(3), End>>
CountNetworksByCountry == <<With("reader"), Iterate("reader"), Advance(5), Goto(3), End>>
FilterNetworks == <<With("reader"), Iterate("reader"), Advance(6), MayBreak(6), Goto(3), End>>
GetNetworkStatistics == <<With("reader"), Iterate("reader"), Advance(5), Goto(3), End>>
ExportToCsv == <<With("reader"), Iterate("reader"), Advance(5), Goto(3), End>>
SearchForNetwork == <<With("reader"), Iterate("reader"), Advance(6), MayBreak(6), Goto(3), End>>

\* examples/batch_processing.py
BasicBatchLookup == <<With("reader"), Get("reader", "1.1.1.1"), End>>
PerformanceComparison ==
  <<With("reader"), ForEach(<<"8.8.8.8", "1.1.1.1">>), Next(7), Get("reader", "item"), Report,
    Goto(3), Get("reader", "1.1.1.1"), End>>
ProcessLogFileSimulation == <<With("reader"), Get("reader", "1.1.1.1"), End>>
AggregateStatistics == <<With("reader"), Get("reader", "1.1.1.1"), End>>

\* get_many() looks its addresses up one by one, up to the bad one.
BatchWithErrorHandling ==
  <<With("reader"), Try(ValueErrors, 8), Get("reader", "8.8.8.8"), Get("reader", "1.1.1.1"),
    Get("reader", "invalid-ip"), Get("reader", "208.67.222.222"), End, End>>
ChunkedBatchProcessing ==
  <<With("reader"), ForEach(<<"first", "second">>), Next(7), Get("reader", "item"), Report,
    Goto(3), End>>

\* main() of each file calls its functions in this order.
UsageMain == <<BasicUsage>>
ContextMain == <<BasicContextManager, ExceptionHandling, MultipleDatabases, DifferentModes>>
IteratorMain == <<BasicIteration, CountNetworksByCountry, FilterNetworks, GetNetworkStatistics,
                  ExportToCsv, SearchForNetwork>>
BatchMain == <<BasicBatchLookup, PerformanceComparison, ProcessLogFileSimulation,
               AggregateStatistics, BatchWithErrorHandling, ChunkedBatchProcessing>>

Program == [basic_usage |-> UsageMain, context_manager |-> ContextMain,
            iterator_demo |-> IteratorMain, batch_processing |-> BatchMain]

-----------------------------------------------------------------------------
Body == Program[file][nth]
Over == pc > Len(Body) \/ raised # "none"
At(do) == ~Over /\ Body[pc].do = do
On == Body[pc].on
Arg == Body[pc].arg

\* What may be raised by opening a database; by a lookup in an open one and the code that uses
\* its result, which fails on a record of another shape than it expects ("RecordError"); by
\* __iter__ of an open reader, and by a step of the iteration.  Whatever importing or calling
\* the classes of ipaddress raises is an "IpaddressError".
OpenErrors == {"OSError", "InvalidDatabaseError"}
LookupErrors == {"InvalidDatabaseError", "DatabaseError", "RecordError"}
IterErrors == {"InvalidDatabaseError", "IpaddressError"}
StepErrors == IterErrors \cup {"RecordError"}

Fresh == [x \in Name |-> "unbound"]

Init == /\ file \in DOMAIN Program /\ nth = 1 /\ pc = 1
        /\ blocks = <<>> /\ readers = Fresh /\ todo = <<>> /\ reported = <<>>
        /\ raised = "none"

Continue(n) == pc' = n /\ UNCHANGED <<file, nth, raised>>
Enter(block) == blocks' = Append(blocks, block)

\* mutant: the exit of a with block is skipped for an exception
UnwindOnly(k) == /\ blocks' = SubSeq(blocks, 1, k - 1)
                 /\ UNCHANGED readers

\* The blocks from the k-th on are left: __exit__ closes the readers of with blocks.
Unwind(k) ==
  /\ blocks' = SubSeq(blocks, 1, k - 1)
  /\ readers' = [x \in Name |->
       IF \E j \in k..Len(blocks) : blocks[j].kind = "with" /\ blocks[j].on = x
       THEN "closed" ELSE readers[x]]

Handlers(e) == {k \in DOMAIN blocks : blocks[k].kind = "try" /\ e \in blocks[k].on}

Raise(e) ==
  /\ UNCHANGED <<file, nth, todo, reported>>
  /\ IF Handlers(e) = {}
     THEN Unwind(1) /\ raised' = e /\ UNCHANGED pc
     ELSE LET k == Max(Handlers(e))
          IN  Unwind(k) /\ pc' = blocks[k].to /\ UNCHANGED raised

\* open_database() and, in a with statement, __enter__.
OpenReader ==
  /\ At("open") \/ At("with")
  /\ \/ \E e \in OpenErrors : Raise(e)
     \/ /\ readers' = [readers EXCEPT ![On] = "open"]
        /\ IF At("with") THEN Enter([kind |-> "with", on |-> On, to |-> 0]) ELSE UNCHANGED blocks
        /\ Continue(pc + 1)
        /\ UNCHANGED <<todo, reported>>

EnterTry == /\ At("try")
            /\ Enter([kind |-> "try", on |-> On, to |-> Arg])
            /\ Continue(pc + 1)
            /\ UNCHANGED <<readers, todo, reported>>

EndBlock == /\ At("end")
            /\ Unwind(Len(blocks))
            /\ Continue(pc + 1)
            /\ UNCHANGED <<todo, reported>>

Invalid == (IF Arg = "item" THEN Head(todo) ELSE Arg) = "invalid-ip"

\* A lookup of one address, with the code that uses its result.
Lookup ==
  /\ At("get")
  /\ CASE readers[On] = "unbound" -> Raise("UnboundLocalError")
       [] readers[On] = "closed" \/ Invalid -> Raise("ValueError")
       [] OTHER -> \/ \E e \in LookupErrors : Raise(e)
                   \/ Continue(pc + 1) /\ UNCHANGED <<blocks, readers, todo, reported>>

ReadMetadata == /\ At("metadata")
                /\ IF readers[On] = "open"
                   THEN Continue(pc + 1) /\ UNCHANGED <<blocks, readers, todo, reported>>
                   ELSE Raise("OSError")

CloseReader == /\ At("close")
               /\ readers' = [readers EXCEPT ![On] = "closed"]
               /\ Continue(pc + 1)
               /\ UNCHANGED <<blocks, todo, reported>>

Say == /\ At("says")
       /\ IF \E x \in On : readers[x] = "unbound"
          THEN Raise("UnboundLocalError")
          ELSE Continue(pc + 1) /\ UNCHANGED <<blocks, readers, todo, reported>>

Jump == At("goto") /\ Continue(Arg) /\ UNCHANGED <<blocks, readers, todo, reported>>

StartLoop == /\ At("foreach")
             /\ todo' = Arg /\ reported' = <<>>
             /\ Continue(pc + 1)
             /\ UNCHANGED <<blocks, readers>>

LoopHead == /\ At("next")
            /\ Continue(IF todo = <<>> THEN Arg ELSE pc + 1)
            /\ UNCHANGED <<blocks, readers, todo, reported>>

LoopEnd == /\ At("report")
           /\ reported' = Append(reported, Head(todo)) /\ todo' = Tail(todo)
           /\ Continue(pc + 1)
           /\ UNCHANGED <<blocks, readers>>

\* __iter__: the for block holds the iterator, and with it the file.
StartIteration ==
  /\ At("iterate")
  /\ IF readers[On] = "open"
     THEN \/ \E e \in IterErrors : Raise(e)
          \/ /\ Enter([kind |-> "for", on |-> On, to |-> Networks])
             /\ Continue(pc + 1)
             /\ UNCHANGED <<readers, todo, reported>>
     ELSE Raise("ValueError")

\* __next__ and the body of the loop: a network, the end, or an exception.
NextNetwork ==
  LET top == Len(blocks) IN
  /\ At("advance")
  /\ \/ /\ blocks[top].to > 0
        /\ blocks' = [blocks EXCEPT ![top].to = @ - 1]
        /\ Continue(pc + 1)
        /\ UNCHANGED <<readers, todo, reported>>
     \/ Unwind(top) /\ Continue(Arg) /\ UNCHANGED <<todo, reported>>
     \/ \E e \in StepErrors : Raise(e)

Break == /\ At("break")
         /\ \/ Unwind(Len(blocks)) /\ Continue(Arg)
            \/ Continue(pc + 1) /\ UNCHANGED <<blocks, readers>>
         /\ UNCHANGED <<todo, reported>>

\* The locals are gone with the function, and main() calls the next one.
Leave == /\ Over /\ raised = "none" /\ nth < Len(Program[file])
         /\ nth' = nth + 1 /\ pc' = 1
         /\ readers' = Fresh /\ todo' = <<>> /\ reported' = <<>>
         /\ UNCHANGED <<file, blocks, raised>>

Step == \/ OpenReader \/ EnterTry \/ EndBlock \/ Lookup \/ ReadMetadata \/ CloseReader \/ Say
        \/ Jump \/ StartLoop \/ LoopHead \/ LoopEnd
        \/ StartIteration \/ NextNetwork \/ Break \/ Leave

Spec == Init /\ [][Step]_vars
FairSpec == Spec /\ WF_vars(Step)

-----------------------------------------------------------------------------
Mapped(x) == readers[x] = "open" \/ \E k \in DOMAIN blocks : blocks[k].kind = "for" /\ blocks[k].on = x

\* However a function ends, no file it opened stays mapped: every reader is closed and
\* every iterator dropped, with the second of two databases failing to open, with an
\* exception in a loop over the networks, or with a return in a handler.  Only basic_usage,
\* which has no with statement, leaves its reader open when a lookup raises.
NothingLeftMapped ==
  Over => \/ \A x \in Name : ~Mapped(x)
          \/ file = "basic_usage" /\ raised # "none"

\* What the examples print of a reader, "Database is open", "Database is closed after
\* 'with' block", "Both databases closed", is true whenever the line is reached; and where
\* addresses are looked up with exception handling each of them has been reported by then,
\* in order and once, with a bad one in the middle.
ReportsAreTrue ==
  At("says") =>
    /\ \A x \in On : readers[x] = IF Arg THEN "closed" ELSE "open"
    /\ file = "context_manager" /\ nth = 2 /\ Arg => reported = FourAddresses

\* The errors that are a program's own fault are caught where they are raised, or cannot be:
\* the ValueError of a bad address or of a closed reader, and the use of a name after `as`
\* that is not bound because the database could not be opened.  The function with exception
\* handling, moreover, lets nothing out that opening or a lookup raises, only what its own
\* code does with a record of another shape.  From the other functions any error of the
\* database may get out, with a batch that is given a bad address too: an earlier address of
\* it may have a corrupt record.
ExpectedErrorsAreHandled ==
  /\ raised \notin {"ValueError", "UnboundLocalError"}
  /\ file = "context_manager" /\ nth = 2 => raised \in {"none", "RecordError"}

\* Every program comes to its end.
Terminates == <>(Over /\ (raised # "none" \/ nth = Len(Program[file])))
=============================================================================
