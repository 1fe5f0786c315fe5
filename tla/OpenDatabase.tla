---------------------------- MODULE OpenDatabase ----------------------------
(***************************************************************************)
(* Reader::new and open.rs: from the mode and the argument to a reader,    *)
(* while other processes replace, remove or overwrite the file.            *)
(*                                                                         *)
(* The file system is a directory entry and inodes of Blocks blocks, each  *)
(* of which has the bytes of some version of the database.  The GIL is     *)
(* released from the opening of the file to the verification.              *)
(***************************************************************************)
EXTENDS Integers, Sequences

CONSTANTS Opener,    \* threads that call open_database()
          Inode,     \* files of the file system
          Version,   \* contents of the file in the course of time
          Garbage,   \* those that are no MaxMind DB
          None       \* no file, nothing mapped

ASSUME OpenAssumption == /\ Garbage \subseteq Version
                         /\ None \notin Inode \cup Version

VARIABLES inplace,   \* do others overwrite blocks besides replacing the file?
          dir,       \* the inode the path leads to
          content,   \* the blocks of each inode
          pc,        \* how far each call has come
          mode,      \* its mode argument
          fd,        \* its open file
          map,       \* its mapping, later its reader's
          buf,       \* its buffer, later its reader's
          outcome    \* the exception it raised

fs == <<inplace, dir, content>>
vars == <<fs, pc, mode, fd, map, buf, outcome>>

Blocks == 2
Bytes == [1..Blocks -> Version]
Whole(v) == [b \in 1..Blocks |-> v]

Mode == {"MODE_AUTO", "MODE_MMAP_EXT", "MODE_MMAP", "MODE_FILE", "MODE_MEMORY", "MODE_FD"}

\* mutant: MODE_FILE maps the file
OpenModeMapped == [m \in Mode |-> CASE m = "MODE_MEMORY" -> "memory"
                                    [] m = "MODE_FD" -> "fd"
                                    [] OTHER -> "mmap"]

\* What each mode does; any other integer is refused.
OpenMode == [m \in Mode |-> CASE m \in {"MODE_FILE", "MODE_MEMORY"} -> "memory"
                              [] m = "MODE_FD" -> "fd"
                              [] OTHER -> "mmap"]

PathMode == {"mmap", "memory"}
Errors == {"ValueError", "FileNotFoundError", "OSError", "InvalidDatabaseError", "of the caller"}
Label == {"idle", "args", "open", "load", "verify", "reader", "raised"}

TypeOK == /\ inplace \in BOOLEAN
          /\ dir \in Inode \cup {None}
          /\ content \in [Inode -> Bytes]
          /\ pc \in [Opener -> Label]
          /\ mode \in [Opener -> Mode \cup {None}]
          /\ fd \in [Opener -> Inode \cup {None}]
          /\ map \in [Opener -> Inode \cup {None}]
          /\ buf \in [Opener -> Seq(Version)] /\ \A t \in Opener : Len(buf[t]) <= Blocks
          /\ outcome \in [Opener -> Errors \cup {None}]

Init == /\ inplace \in BOOLEAN
        /\ dir \in Inode \cup {None}
        /\ \E v \in Version : content = [i \in Inode |-> Whole(v)]
        /\ pc = [t \in Opener |-> "idle"]
        /\ mode = [t \in Opener |-> None]
        /\ fd = [t \in Opener |-> None]
        /\ map = [t \in Opener |-> None]
        /\ buf = [t \in Opener |-> <<>>]
        /\ outcome = [t \in Opener |-> None]

-----------------------------------------------------------------------------
\* Other processes.  An inode that nothing refers to may be used for a new file.
InUse(i) == dir = i \/ \E t \in Opener : fd[t] = i \/ map[t] = i

Replace == \E i \in Inode, v \in Version :
             /\ ~InUse(i)
             /\ content' = [content EXCEPT ![i] = Whole(v)]
             /\ dir' = i
             /\ UNCHANGED <<inplace, pc, mode, fd, map, buf, outcome>>

Unlink == /\ dir # None
          /\ dir' = None
          /\ UNCHANGED <<inplace, content, pc, mode, fd, map, buf, outcome>>

Overwrite == \E b \in 1..Blocks, v \in Version :
               /\ inplace /\ dir # None
               /\ content' = [content EXCEPT ![dir][b] = v]
               /\ UNCHANGED <<inplace, dir, pc, mode, fd, map, buf, outcome>>

-----------------------------------------------------------------------------
Goto(t, l) == pc' = [pc EXCEPT ![t] = l]
Kind(t) == OpenMode[mode[t]]

\* What the call owns is dropped with its frame.
Raise(t, e) == /\ Goto(t, "raised")
               /\ outcome' = [outcome EXCEPT ![t] = e]
               /\ fd' = [fd EXCEPT ![t] = None]
               /\ map' = [map EXCEPT ![t] = None]
               /\ buf' = [buf EXCEPT ![t] = <<>>]
               /\ UNCHANGED <<fs, mode>>

\* The mode is looked at before the argument.
Call(t) == /\ pc[t] = "idle"
           /\ \/ /\ Goto(t, "args")
                 /\ \E m \in Mode : mode' = [mode EXCEPT ![t] = m]
                 /\ UNCHANGED <<fs, fd, map, buf, outcome>>
              \/ Raise(t, "ValueError")

\* A str, or what __fspath__ returns: no such method, or an exception of it.
ExtractPath(t) == /\ pc[t] = "args" /\ Kind(t) \in PathMode
                  /\ \/ /\ Goto(t, "open")
                        /\ UNCHANGED <<fs, mode, fd, map, buf, outcome>>
                     \/ \E e \in {"ValueError", "of the caller"} : Raise(t, e)

\* mutant: every error of the open is taken for a missing file
OpenFileAnyError(t) ==
  /\ pc[t] = "open"
  /\ \/ Raise(t, "FileNotFoundError")
     \/ /\ dir # None
        /\ fd' = [fd EXCEPT ![t] = dir]
        /\ Goto(t, "load")
        /\ UNCHANGED <<fs, mode, map, buf, outcome>>

\* From here on the call has an inode, whatever the path leads to later.
OpenFile(t) ==
  /\ pc[t] = "open"
  /\ \/ dir = None /\ Raise(t, "FileNotFoundError")
     \/ dir # None /\ Raise(t, "OSError")
     \/ /\ dir # None
        /\ fd' = [fd EXCEPT ![t] = dir]
        /\ Goto(t, "load")
        /\ UNCHANGED <<fs, mode, map, buf, outcome>>

\* mutant: the file stays open behind the mapping
MapKeepsFile(t) ==
  /\ pc[t] = "load" /\ Kind(t) = "mmap"
  /\ \/ /\ map' = [map EXCEPT ![t] = fd[t]]
        /\ Goto(t, "verify")
        /\ UNCHANGED <<fs, mode, fd, buf, outcome>>
     \/ Raise(t, "OSError")

\* The mapping keeps the inode; the file is closed at the end of the closure.
Map(t) ==
  /\ pc[t] = "load" /\ Kind(t) = "mmap"
  /\ \/ /\ map' = [map EXCEPT ![t] = fd[t]]
        /\ fd' = [fd EXCEPT ![t] = None]
        /\ Goto(t, "verify")
        /\ UNCHANGED <<fs, mode, buf, outcome>>
     \/ Raise(t, "OSError")

\* mutant: every block is read through the path
ReadByPath(t) ==
  /\ pc[t] = "load" /\ Kind(t) = "memory"
  /\ \/ /\ dir # None
        /\ buf' = [buf EXCEPT ![t] = Append(@, content[dir][Len(@) + 1])]
        /\ IF Len(buf'[t]) < Blocks
           THEN UNCHANGED <<fs, pc, mode, fd, map, outcome>>
           ELSE /\ fd' = [fd EXCEPT ![t] = None]
                /\ Goto(t, "verify")
                /\ UNCHANGED <<fs, mode, map, outcome>>
     \/ Raise(t, "OSError")

\* std::fs::read: the file block by block, closed after the last.
Read(t) ==
  /\ pc[t] = "load" /\ Kind(t) = "memory"
  /\ \/ /\ buf' = [buf EXCEPT ![t] = Append(@, content[fd[t]][Len(@) + 1])]
        /\ IF Len(buf'[t]) < Blocks
           THEN UNCHANGED <<fs, pc, mode, fd, map, outcome>>
           ELSE /\ fd' = [fd EXCEPT ![t] = None]
                /\ Goto(t, "verify")
                /\ UNCHANGED <<fs, mode, map, outcome>>
     \/ Raise(t, "OSError")

\* MODE_FD: the bytes come from the caller's object, whose name, read() and type may
\* fail or be of the wrong type.
ReadObject(t) ==
  /\ pc[t] = "args" /\ Kind(t) = "fd"
  /\ \/ /\ \E v \in Version : buf' = [buf EXCEPT ![t] = Whole(v)]
        /\ Goto(t, "verify")
        /\ UNCHANGED <<fs, mode, fd, map, outcome>>
     \/ Raise(t, "of the caller")

\* The bytes a reader, or the verification, sees.
View(t) == IF map[t] # None THEN content[map[t]] ELSE buf[t]
Torn(bytes) == \E b \in 1..Blocks : bytes[b] # bytes[1]

\* Reader::from_source reads the metadata.  A mixture of versions may pass or not.
Verify(t) ==
  /\ pc[t] = "verify"
  /\ \/ /\ Torn(View(t)) \/ View(t)[1] \notin Garbage
        /\ Goto(t, "reader")
        /\ UNCHANGED <<fs, mode, fd, map, buf, outcome>>
     \/ /\ Torn(View(t)) \/ View(t)[1] \in Garbage
        /\ Raise(t, "InvalidDatabaseError")

\* The caller handles the exception, or drops the reader.
Drop(t) == /\ pc[t] \in {"reader", "raised"}
           /\ Goto(t, "idle")
           /\ mode' = [mode EXCEPT ![t] = None]
           /\ outcome' = [outcome EXCEPT ![t] = None]
           /\ map' = [map EXCEPT ![t] = None]
           /\ buf' = [buf EXCEPT ![t] = <<>>]
           /\ UNCHANGED <<fs, fd>>

Next == \/ Replace \/ Unlink \/ Overwrite
        \/ \E t \in Opener : \/ Call(t) \/ ExtractPath(t) \/ OpenFile(t) \/ Map(t) \/ Read(t)
                             \/ ReadObject(t) \/ Verify(t) \/ Drop(t)

Spec == Init /\ [][Next]_vars

-----------------------------------------------------------------------------
\* Whatever step of opening fails, the exception leaves nothing behind; a reader has one
\* mapping or one whole buffer and no open file (load_reader, open_database_*).
NoLeak == \A t \in Opener :
  /\ pc[t] \in {"idle", "args", "open", "raised"} =>
       fd[t] = None /\ map[t] = None /\ buf[t] = <<>>
  /\ pc[t] \in {"verify", "reader"} =>
       /\ fd[t] = None
       /\ IF map[t] # None THEN buf[t] = <<>> ELSE Len(buf[t]) = Blocks

\* A reader never mixes two versions of the database nor has one that is none, as long as
\* the file is replaced and not overwritten, which is what open.rs assumes of the others.
OneVersion == ~inplace => \A t \in Opener :
  pc[t] = "reader" => ~Torn(View(t)) /\ View(t)[1] \notin Garbage

\* A reader in one of the modes that load the database keeps its contents, whatever others
\* do to the file, be it in place.
Frozen == [][\A t \in Opener :
  mode[t] \in {"MODE_FILE", "MODE_MEMORY", "MODE_FD"} /\ pc[t] = "reader" /\ pc'[t] = "reader"
    => View(t)' = View(t)]_vars

\* Opening is atomic with respect to the replacement of the file: AtomicOpen.  It says
\* nothing of a file that is overwritten, during which the mapping stands still.
Current == IF inplace \/ dir = None THEN None ELSE content[dir][1]
AtomicPhase(t) ==
  CASE pc[t] = "reader" -> "open"
    [] pc[t] = "raised" -> IF outcome[t] = "FileNotFoundError" THEN "absent" ELSE "failed"
    [] pc[t] = "idle" -> "idle"
    [] OTHER -> IF Kind(t) = "fd" THEN "handed" ELSE "opening"
Got(t) == CASE fd[t] # None -> content[fd[t]][1]
            [] fd[t] = None /\ (map[t] # None \/ buf[t] # <<>>) -> View(t)[1]
            [] OTHER -> None

Atomic == INSTANCE AtomicOpen WITH current <- Current,
                                   phase <- [t \in Opener |-> IF inplace THEN "idle" ELSE AtomicPhase(t)],
                                   got <- [t \in Opener |-> IF inplace THEN None ELSE Got(t)]
ImplementsAtomicOpen == Atomic!Spec
=============================================================================
